---- MODULE Spec2Model ----
(***************************************************************************)
(* MagicLink (obsidian-magiclink, src/main.ts): the incremental index of   *)
(* note titles, headings, tags and property values, kept up to date by the *)
(* vault / metadataCache event handlers and rebuilt by buildAllIndexes,    *)
(* and the phrase resolution of getPhraseAtRange.                          *)
(*                                                                         *)
(* Strings are sequences of one-character strings, so that toLowerCase,    *)
(* the path split and the regular expressions are computed, not assumed.   *)
(* A TFile is an object: records hold its identity (a FileId) and every    *)
(* read of file.path / file.basename reads the object's current fields.    *)
(***************************************************************************)
EXTENDS Integers, Sequences, FiniteSets, TLC

\* ------------------------------------------------------------------ bounds
MaxFiles == 3
MaxTasks == 2
MaxExtRenames == 1
MaxFewFiles == 2
MaxFewExtRenames == 2

FileIds == 1..MaxFiles

\* ----------------------------------------------------------------- strings
UpperLetters ==
    << "A", "B", "C", "D", "E", "F", "G", "H", "I", "J", "K", "L", "M",
       "N", "O", "P", "Q", "R", "S", "T", "U", "V", "W", "X", "Y", "Z" >>

LowerLetters ==
    << "a", "b", "c", "d", "e", "f", "g", "h", "i", "j", "k", "l", "m",
       "n", "o", "p", "q", "r", "s", "t", "u", "v", "w", "x", "y", "z" >>

Digits == {"0", "1", "2", "3", "4", "5", "6", "7", "8", "9"}

LowerOf == [c \in {UpperLetters[i] : i \in 1..26} |->
               LowerLetters[CHOOSE i \in 1..26 : UpperLetters[i] = c]]

LowerChar(c) == IF c \in DOMAIN LowerOf THEN LowerOf[c] ELSE c

\* the characters the regular expression class \w matches (no u flag: ASCII only)
WordChars ==
    {UpperLetters[i] : i \in 1..26} \cup {LowerLetters[i] : i \in 1..26} \cup Digits \cup {"_"}

IsWordChar(c) == c \in WordChars

toLowerCase(s) == [i \in DOMAIN s |-> LowerChar(s[i])]

EndsWith(s, suf) ==
    /\ Len(s) >= Len(suf)
    /\ SubSeq(s, Len(s) - Len(suf) + 1, Len(s)) = suf

\* s.replace(/\.md$/, '')
StripMdSuffix(s) ==
    IF EndsWith(s, <<".", "m", "d">>) THEN SubSeq(s, 1, Len(s) - 3) ELSE s

\* s.replace(/^#/, '')
StripHash(s) ==
    IF Len(s) > 0 /\ s[1] = "#" THEN Tail(s) ELSE s

\* s.split('/').pop(): the part after the last '/'
LastSegment(s) ==
    IF \E i \in DOMAIN s : s[i] = "/"
    THEN LET i == CHOOSE j \in DOMAIN s : s[j] = "/" /\ \A k \in DOMAIN s : s[k] = "/" => k <= j
         IN SubSeq(s, i + 1, Len(s))
    ELSE s

\* ------------------------------------------------------------------- files
MD  == <<"m", "d">>
TXT == <<"t", "x", "t">>

\* a TFile's fields; path is derived from them as the host derives it
File(folder, basename, extension) ==
    [folder |-> folder, basename |-> basename, extension |-> extension]

\* the fields of an identity that is no file (yet, or any more)
NoFile == File(<<>>, <<>>, <<>>)

\* the names files are given: three markdown paths with the same lowercased
\* basename (by case, by folder), one with another, and two that are not markdown

TFiles ==
    { File(<<>>,    <<"N">>, MD),
      File(<<>>,    <<"n">>, MD),
      File(<<"d">>, <<"N">>, MD),
      File(<<>>,    <<"m">>, MD),
      File(<<>>,    <<"N">>, TXT),
      File(<<>>,    <<"m">>, TXT) }

PathOf(tf) ==
    (IF tf.folder = <<>> THEN <<>> ELSE tf.folder \o <<"/">>)
        \o tf.basename \o <<".">> \o tf.extension

\* --------------------------------------------------------------- metadata
Str(s)  == [t |-> "string", v |-> s]
Num(n)  == [t |-> "number", v |-> n]
List(l) == [t |-> "array",  v |-> l]

NoCache == [none |-> TRUE]

MetaA ==
    [ headings    |-> << [heading |-> <<"N">>, line |-> 0],
                         [heading |-> <<"n">>, line |-> 2] >>,
      tags        |-> << [tag |-> <<"#", "T">>, line |-> 1] >>,
      frontmatter |-> << <<"position", Str(<<"t", "p">>)>>,
                         <<"author",   Str(<<"A", "l">>)>>,
                         <<"aliases",  List(<< Str(<<"a", "l">>), Num(7), Str(<<"x">>) >>)>> >> ]

MetaB ==
    [ headings    |-> << [heading |-> <<"m">>, line |-> 0] >>,
      tags        |-> << [tag |-> <<"#", "t">>, line |-> 3],
                         [tag |-> <<"#", "t">>, line |-> 5] >>,
      frontmatter |-> << <<"rank", Num(3)>> >> ]

Metas == { MetaA, MetaB }

\* ------------------------------------------------------------------- state
VARIABLES
    vault,          \* the TFile objects currently in the vault
    tfile,          \* each object's current folder / basename / extension
    cache,          \* metadataCache.getFileCache(file), NoCache when it has none
    settings,       \* this.settings (the fields the index and the matcher read)
    noteIndex,      \* NoteIndex.index : Map<string, TFile[]>
    headingIndex,   \* Map<string, HeadingMatch[]>
    tagIndex,       \* Map<string, TagMatch[]>
    propertyIndex,  \* Map<string, PropertyMatch[]>
    tasks,          \* settings handlers suspended at an await (save, rebuild loop)
    extRenames,     \* how many renames so far changed a file's extension
    excludedWordsSet, \* this.excludedWordsSet
    hovered,        \* the last call of getPhraseAtRange: its inputs and its result
    classified,     \* the last call of getMatchType: its input and its result
    rendered,       \* the last text node postProcessor handled, and what it made of it
    popoverEl,      \* this.popoverEl: the phrase of the popover shown, or NoPopover
    hoverTimeout,   \* this.hoverTimeout: the id of the timer set last, 0 for null
    timers,         \* the host's pending timers: id, kind, and phrase for a deferred show
    lastPhrase,     \* this.lastPhrase
    isPopoverLocked, \* this.isPopoverLocked
    isTyping,       \* this.isTyping
    highlightTimeout, \* this.highlightTimeout: the id of the typing timer, 0 for null
    inserted,       \* the last call of insertLink: the popover it came from, what it did
    last            \* the event whose handler ran last (history, for the claims)

vars == <<vault, tfile, cache, settings, noteIndex, headingIndex, tagIndex,
          propertyIndex, tasks, extRenames, excludedWordsSet, hovered, classified,
          rendered, popoverEl, hoverTimeout, timers, lastPhrase, isPopoverLocked,
          isTyping, highlightTimeout, inserted, last>>

indexVars == <<vault, tfile, cache, noteIndex, headingIndex, tagIndex, propertyIndex,
               tasks, extRenames, last>>

\* the popover and its timer
popoverVars == <<popoverEl, hoverTimeout, timers, lastPhrase, isPopoverLocked>>

\* the results of the last queries
queryVars == <<hovered, classified, rendered>>

\* the typing flag with its timer, and the last insertion
editVars == <<isTyping, highlightTimeout, inserted>>

hoverVars == <<excludedWordsSet, queryVars, popoverVars, editVars>>

EmptyMap == <<>>

\* Map.has(key)
Has(map, key) == key \in DOMAIN map

\* Map.get(key) || []
GetOrEmpty(map, key) == IF Has(map, key) THEN map[key] ELSE <<>>

\* if (!map.has(key)) map.set(key, []); map.get(key).push(rec)
Push(map, key, rec) ==
    IF Has(map, key)
    THEN [map EXCEPT ![key] = Append(@, rec)]
    ELSE [k \in DOMAIN map \cup {key} |-> IF k = key THEN <<rec>> ELSE map[k]]

\* SetOrDelete without the delete branch: an emptied list stays under its key
SetOrDelete_KeepsEmpty(map, key, filtered) == [map EXCEPT ![key] = filtered]

\* if (filtered.length === 0) map.delete(key); else map.set(key, filtered)
SetOrDelete(map, key, filtered) ==
    IF filtered = <<>>
    THEN [k \in DOMAIN map \ {key} |-> map[k]]
    ELSE [map EXCEPT ![key] = filtered]

\* 'the, and, for, with, this, that, from, have, been'
DefaultExcludedText ==
    <<
       "t", "h", "e", ",", " ", "a", "n", "d", ",", " ", "f", "o", "r", ",", " ",
       "w", "i", "t", "h", ",", " ", "t", "h", "i", "s", ",", " ", "t", "h", "a",
       "t", ",", " ", "f", "r", "o", "m", ",", " ", "h", "a", "v", "e", ",", " ",
       "b", "e", "e", "n" >>

DefaultSettings ==
    [ enabled          |-> TRUE,
      maxResults       |-> 10,
      detectNotes      |-> TRUE,
      detectHeadings   |-> TRUE,
      detectTags       |-> TRUE,
      detectProperties |-> TRUE,
      minWordLength    |-> 2,
      maxPhraseWords   |-> 5,
      excludedWords    |-> DefaultExcludedText ]

\* s.split(','): the parts between the commas, empty ones included
RECURSIVE SplitComma(_)
SplitComma(s) ==
    IF \E i \in DOMAIN s : s[i] = ","
    THEN LET i == CHOOSE j \in DOMAIN s : s[j] = "," /\ \A k \in 1..(j - 1) : s[k] # ","
         IN <<SubSeq(s, 1, i - 1)>> \o SplitComma(SubSeq(s, i + 1, Len(s)))
    ELSE <<s>>

\* w.trim(): without the white space at its two ends
RECURSIVE Trim(_)
Trim(w) ==
    IF w = <<>> THEN w
    ELSE IF w[1] = " " THEN Trim(Tail(w))
    ELSE IF w[Len(w)] = " " THEN Trim(SubSeq(w, 1, Len(w) - 1))
    ELSE w

\* updateExcludedWords: the set it leaves in excludedWordsSet for the text given
updateExcludedWords(text) ==
    LET parts == SplitComma(text)
    IN {toLowerCase(Trim(parts[i])) : i \in DOMAIN parts} \ {<<>>}

\* --------------------------------------------------------------- NoteIndex
addFile(idx, tf, f) ==
    Push(idx, toLowerCase(tf[f].basename), f)

removeFile(idx, tf, f) ==
    LET name == toLowerCase(tf[f].basename)
    IN IF Has(idx, name)
       THEN SetOrDelete(idx, name,
                SelectSeq(idx[name], LAMBDA g : PathOf(tf[g]) # PathOf(tf[f])))
       ELSE idx

\* renameFile looking the old name up as written, not lowercased
renameFile_CaseSensitive(idx, tf, f, oldPath) ==
    LET oldName  == StripMdSuffix(LastSegment(oldPath))
        filtered == IF Has(idx, oldName)
                    THEN SetOrDelete(idx, oldName,
                             SelectSeq(idx[oldName], LAMBDA g : PathOf(tf[g]) # PathOf(tf[f])))
                    ELSE idx
    IN addFile(filtered, tf, f)

renameFile(idx, tf, f, oldPath) ==
    LET oldName  == toLowerCase(StripMdSuffix(LastSegment(oldPath)))
        filtered == IF Has(idx, oldName)
                    THEN SetOrDelete(idx, oldName,
                             SelectSeq(idx[oldName], LAMBDA g : PathOf(tf[g]) # PathOf(tf[f])))
                    ELSE idx
    IN addFile(filtered, tf, f)

\* getMarkdownFiles(): the markdown files of the vault, here in object order
RECURSIVE SeqOfSet(_)
SeqOfSet(S) ==
    IF S = {} THEN <<>>
    ELSE LET m == CHOOSE x \in S : \A y \in S : x <= y
         IN <<m>> \o SeqOfSet(S \ {m})

getMarkdownFiles(v, tf) == SeqOfSet({f \in v : tf[f].extension = MD})

RECURSIVE AddAll(_, _, _)
AddAll(idx, tf, fs) ==
    IF fs = <<>> THEN idx ELSE AddAll(addFile(idx, tf, Head(fs)), tf, Tail(fs))

buildIndex(v, tf) == AddAll(EmptyMap, tf, getMarkdownFiles(v, tf))

\* ------------------------------------------------ indexFile, one loop each
RECURSIVE IndexHeadings(_, _, _)
IndexHeadings(idx, f, hs) ==
    IF hs = <<>> THEN idx
    ELSE LET h == Head(hs)
         IN IndexHeadings(
                Push(idx, toLowerCase(h.heading),
                     [file |-> f, heading |-> h.heading, line |-> h.line]),
                f, Tail(hs))

RECURSIVE IndexTags(_, _, _)
IndexTags(idx, f, ts) ==
    IF ts = <<>> THEN idx
    ELSE LET t == Head(ts)
         IN IndexTags(
                Push(idx, toLowerCase(StripHash(t.tag)),
                     [file |-> f, tag |-> t.tag, line |-> t.line]),
                f, Tail(ts))

\* Array.isArray(value) ? value : [value]
ValuesOf(value) == IF value.t = "array" THEN value.v ELSE <<value>>

RECURSIVE IndexValues(_, _, _, _, _)
IndexValues(idx, f, prop, vs, minLen) ==
    IF vs = <<>> THEN idx
    ELSE LET v == Head(vs)
         IN IndexValues(
                IF v.t = "string" /\ Len(v.v) >= minLen
                THEN Push(idx, toLowerCase(v.v),
                          [file |-> f, property |-> prop, value |-> v.v])
                ELSE idx,
                f, prop, Tail(vs), minLen)

RECURSIVE IndexProperties(_, _, _, _)
IndexProperties(idx, f, entries, minLen) ==
    IF entries = <<>> THEN idx
    ELSE LET prop  == Head(entries)[1]
             value == Head(entries)[2]
         IN IndexProperties(
                IF prop = "position" THEN idx
                ELSE IndexValues(idx, f, prop, ValuesOf(value), minLen),
                f, Tail(entries), minLen)

\* the three maps as one value, so that indexFile and removeFileFromIndexes
\* are functions from maps to maps
Maps(h, t, p) == [heading |-> h, tag |-> t, property |-> p]

indexFile(m, c, s, f) ==
    IF c[f] = NoCache THEN m
    ELSE Maps(
            IF s.detectHeadings THEN IndexHeadings(m.heading, f, c[f].headings)
                                ELSE m.heading,
            IF s.detectTags THEN IndexTags(m.tag, f, c[f].tags)
                            ELSE m.tag,
            IF s.detectProperties
            THEN IndexProperties(m.property, f, c[f].frontmatter, s.minWordLength)
            ELSE m.property)

\* FilterOut dropping only the first record of the file under each key
FilterOut_FirstOnly(map, tf, f) ==
    LET hits(k)  == {i \in DOMAIN map[k] : PathOf(tf[map[k][i].file]) = PathOf(tf[f])}
        first(k) == CHOOSE i \in hits(k) : \A j \in hits(k) : i <= j
        filtered == [k \in DOMAIN map |->
                        IF hits(k) = {} THEN map[k]
                        ELSE SubSeq(map[k], 1, first(k) - 1)
                                \o SubSeq(map[k], first(k) + 1, Len(map[k]))]
    IN [k \in {x \in DOMAIN map : filtered[x] # <<>>} |-> filtered[k]]

\* one of the three loops of removeFileFromIndexes
FilterOut(map, tf, f) ==
    LET filtered == [k \in DOMAIN map |->
                        SelectSeq(map[k], LAMBDA r : PathOf(tf[r.file]) # PathOf(tf[f]))]
    IN [k \in {x \in DOMAIN map : filtered[x] # <<>>} |-> filtered[k]]

removeFileFromIndexes(m, tf, f) ==
    Maps(FilterOut(m.heading, tf, f), FilterOut(m.tag, tf, f), FilterOut(m.property, tf, f))

RECURSIVE IndexAll(_, _, _, _)
IndexAll(m, c, s, fs) ==
    IF fs = <<>> THEN m ELSE IndexAll(indexFile(m, c, s, Head(fs)), c, s, Tail(fs))

CurrentMaps == Maps(headingIndex, tagIndex, propertyIndex)

SetMaps(m) ==
    /\ headingIndex'  = m.heading
    /\ tagIndex'      = m.tag
    /\ propertyIndex' = m.property

\* ---------------------------------------------------------- the host side
Paths(v, tf) == {PathOf(tf[g]) : g \in v}

\* a TFile object is still reachable from the plugin: a record or a suspended
\* rebuild loop holds it
Referenced(f, ni, m, ts) ==
    \/ \E k \in DOMAIN ni : \E i \in DOMAIN ni[k] : ni[k][i] = f
    \/ \E k \in DOMAIN m.heading  : \E i \in DOMAIN m.heading[k]  : m.heading[k][i].file = f
    \/ \E k \in DOMAIN m.tag      : \E i \in DOMAIN m.tag[k]      : m.tag[k][i].file = f
    \/ \E k \in DOMAIN m.property : \E i \in DOMAIN m.property[k] : m.property[k][i].file = f
    \/ \E t \in DOMAIN ts : \E i \in DOMAIN ts[t].queue : ts[t].queue[i] = f

\* a new TFile is a new object: an identity nothing refers to (the lowest one)
Unused(f) == f \notin vault /\ ~Referenced(f, noteIndex, CurrentMaps, tasks)

Fresh(f, ids) ==
    /\ f \in ids
    /\ Unused(f)
    /\ \A g \in ids : g < f => ~Unused(g)

Event(op, f, old) == [op |-> op, file |-> f, old |-> old]

\* the vault the plugin is loaded into: the first n of these documents
InitFile(i) ==
    CASE i = 1 -> File(<<>>,    <<"N">>, MD)
      [] i = 2 -> File(<<"d">>, <<"N">>, MD)
      [] OTHER -> NoFile

InitCache(i) ==
    CASE i = 1 -> MetaA
      [] i = 2 -> MetaB
      [] OTHER -> NoCache

InitCount == 0..2

\* the words of DEFAULT_SETTINGS.excludedWords
DefaultExcludedWords ==
    { <<"t", "h", "e">>, <<"a", "n", "d">>, <<"f", "o", "r">>, <<"w", "i", "t", "h">>,
      <<"t", "h", "i", "s">>, <<"t", "h", "a", "t">>, <<"f", "r", "o", "m">>,
      <<"h", "a", "v", "e">>, <<"b", "e", "e", "n">> }

NoHover == [none |-> TRUE]

NoClassified == [none |-> TRUE]

NoRender == [none |-> TRUE]

NoPopover == [none |-> TRUE]

NoInsert == [none |-> TRUE]

\* onload: loadSettings (s: the loaded settings), updateExcludedWords, new NoteIndex,
\* buildIndex, buildAllIndexes over the first n of the files; the event handlers are
\* registered after both builds
Loaded(files, caches, n, s) ==
    /\ vault = 1..n
    /\ tfile = [f \in FileIds |-> IF f <= n THEN files[f] ELSE NoFile]
    /\ cache = [f \in FileIds |-> IF f <= n THEN caches[f] ELSE NoCache]
    /\ settings = s
    /\ excludedWordsSet = updateExcludedWords(s.excludedWords)
    /\ noteIndex = buildIndex(vault, tfile)
    /\ LET m == IndexAll(Maps(EmptyMap, EmptyMap, EmptyMap), cache, settings,
                         getMarkdownFiles(vault, tfile))
       IN /\ headingIndex  = m.heading
          /\ tagIndex      = m.tag
          /\ propertyIndex = m.property
    /\ tasks = <<>>
    /\ extRenames = 0
    /\ hovered = NoHover
    /\ classified = NoClassified
    /\ rendered = NoRender
    /\ popoverEl = NoPopover
    /\ hoverTimeout = 0
    /\ timers = {}
    /\ lastPhrase = <<>>
    /\ isPopoverLocked = FALSE
    /\ isTyping = FALSE
    /\ highlightTimeout = 0
    /\ inserted = NoInsert
    /\ last = Event("load", 0, NoFile)

Init ==
    \E n \in InitCount :
        Loaded([f \in FileIds |-> InitFile(f)], [f \in FileIds |-> InitCache(f)], n,
               DefaultSettings)

\* vault.on('create')
\* (the host has metadata for markdown files only)
Create(f, tf, c) ==
    /\ f \notin vault
    /\ tf.extension # MD => c = NoCache
    /\ PathOf(tf) \notin Paths(vault, tfile)
    /\ vault' = vault \cup {f}
    /\ tfile' = [tfile EXCEPT ![f] = tf]
    /\ cache' = [cache EXCEPT ![f] = c]
    /\ IF tf.extension = MD
       THEN /\ noteIndex' = addFile(noteIndex, tfile', f)
            /\ SetMaps(indexFile(CurrentMaps, cache', settings, f))
       ELSE UNCHANGED <<noteIndex, headingIndex, tagIndex, propertyIndex>>
    /\ last' = Event("create", 0, NoFile)
    /\ UNCHANGED hoverVars
    /\ UNCHANGED <<settings, tasks, extRenames>>

\* vault.on('delete'): the file object still has its path
Delete(f) ==
    /\ f \in vault
    /\ vault' = vault \ {f}
    /\ cache' = [cache EXCEPT ![f] = NoCache]
    /\ IF tfile[f].extension = MD
       THEN /\ noteIndex' = removeFile(noteIndex, tfile, f)
            /\ SetMaps(removeFileFromIndexes(CurrentMaps, tfile, f))
       ELSE UNCHANGED <<noteIndex, headingIndex, tagIndex, propertyIndex>>
    /\ tfile' = IF Referenced(f, noteIndex', Maps(headingIndex', tagIndex', propertyIndex'), tasks)
                THEN tfile
                ELSE [tfile EXCEPT ![f] = NoFile]
    /\ last' = Event("delete", f, tfile[f])
    /\ UNCHANGED hoverVars
    /\ UNCHANGED <<settings, tasks, extRenames>>

\* vault.on('rename'): the same object, its path already updated, and the old path
Rename(f, tf) ==
    /\ f \in vault
    /\ tf # tfile[f]
    /\ extRenames' = extRenames + (IF tf.extension = tfile[f].extension THEN 0 ELSE 1)
    /\ PathOf(tf) \notin Paths(vault, tfile)
    /\ tfile' = [tfile EXCEPT ![f] = tf]
    /\ cache' = IF tf.extension = MD THEN cache ELSE [cache EXCEPT ![f] = NoCache]
    /\ IF tf.extension = MD
       THEN /\ noteIndex' = renameFile(noteIndex, tfile', f, PathOf(tfile[f]))
            /\ SetMaps(indexFile(removeFileFromIndexes(CurrentMaps, tfile', f),
                                 cache', settings, f))
       ELSE UNCHANGED <<noteIndex, headingIndex, tagIndex, propertyIndex>>
    /\ last' = Event("rename", f, tfile[f])
    /\ UNCHANGED hoverVars
    /\ UNCHANGED <<vault, settings, tasks>>

\* metadataCache.on('changed'): the cache of a markdown file was (re)computed
Changed(f, c) ==
    /\ f \in vault
    /\ tfile[f].extension = MD
    /\ cache' = [cache EXCEPT ![f] = c]
    /\ SetMaps(indexFile(removeFileFromIndexes(CurrentMaps, tfile, f),
                         cache', settings, f))
    /\ last' = Event("changed", 0, NoFile)
    /\ UNCHANGED hoverVars
    /\ UNCHANGED <<vault, tfile, settings, noteIndex, tasks, extRenames>>

\* ------------------------------------------------- settings tab, rebuilds
\* onChange of a detection toggle: set the flag, await saveSettings(), and
\* only then buildAllIndexes()
Suspend(flag) ==
    /\ Len(tasks) < MaxTasks
    /\ settings' = [settings EXCEPT ![flag] = ~@]
    /\ tasks' = Append(tasks, [pc |-> "save", queue |-> <<>>])
    /\ last' = Event("toggle", 0, NoFile)
    /\ UNCHANGED hoverVars
    /\ UNCHANGED <<vault, tfile, cache, noteIndex, headingIndex, tagIndex, propertyIndex,
                   extRenames>>

ToggleDetectHeadings   == Suspend("detectHeadings")
ToggleDetectTags       == Suspend("detectTags")
ToggleDetectProperties == Suspend("detectProperties")

Without(ts, i) == SubSeq(ts, 1, i - 1) \o SubSeq(ts, i + 1, Len(ts))

\* what a rebuild leaves suspended after indexing the head of its file list
Continue(ts, i, fs) ==
    IF Len(fs) <= 1 THEN Without(ts, i)
    ELSE [ts EXCEPT ![i] = [pc |-> "loop", queue |-> Tail(fs)]]

\* buildAllIndexes up to its first await: the three clear() calls and the
\* first indexFile
buildAllIndexes(i) ==
    /\ i \in DOMAIN tasks
    /\ tasks[i].pc = "save"
    /\ LET fs == getMarkdownFiles(vault, tfile)
           m0 == Maps(EmptyMap, EmptyMap, EmptyMap)
       IN /\ SetMaps(IF fs = <<>> THEN m0 ELSE indexFile(m0, cache, settings, Head(fs)))
          /\ tasks' = Continue(tasks, i, fs)
    /\ last' = Event("rebuild", 0, NoFile)
    /\ UNCHANGED hoverVars
    /\ UNCHANGED <<vault, tfile, cache, settings, noteIndex, extRenames>>

\* one more turn of the loop of buildAllIndexes, resumed after its await
buildAllIndexesLoop(i) ==
    /\ i \in DOMAIN tasks
    /\ tasks[i].pc = "loop"
    /\ SetMaps(indexFile(CurrentMaps, cache, settings, Head(tasks[i].queue)))
    /\ tasks' = Continue(tasks, i, tasks[i].queue)
    /\ last' = Event("rebuild", 0, NoFile)
    /\ UNCHANGED hoverVars
    /\ UNCHANGED <<vault, tfile, cache, settings, noteIndex, extRenames>>

\* the events the host delivers, with the inputs drawn from the given sets and
\* at most cap renames that change an extension
Events(ids, names, metas, cap) ==
    \/ \E f \in ids : Fresh(f, ids) /\ \E tf \in names, c \in metas \cup {NoCache} : Create(f, tf, c)
    \/ \E f \in ids : Delete(f)
    \/ \E f \in ids, tf \in names : Rename(f, tf) /\ extRenames' <= cap
    \/ \E f \in ids, c \in metas : Changed(f, c)

\* the detection toggles of the settings tab and the rebuilds they start
Rebuilds ==
    \/ ToggleDetectHeadings
    \/ ToggleDetectTags
    \/ ToggleDetectProperties
    \/ \E i \in 1..MaxTasks : buildAllIndexes(i)
    \/ \E i \in 1..MaxTasks : buildAllIndexesLoop(i)

\* Spec: the document events alone, on up to MaxFiles files
Next == Events(FileIds, TFiles, {MetaA}, MaxExtRenames)

Spec == Init /\ [][Next]_vars

\* SpecFew: the document events on fewer files, with more extension changes
NextFew == Events(1..MaxFewFiles, TFiles, {MetaA}, MaxFewExtRenames)

SpecFew == Init /\ [][NextFew]_vars

\* SpecRebuild: the document events with the settings-triggered rebuilds, whose
\* awaits let other handlers run
RebuildNames == { File(<<>>, <<"N">>, MD), File(<<>>, <<"m">>, MD), File(<<>>, <<"N">>, TXT) }

NextRebuild ==
    (Events(1..MaxFewFiles, RebuildNames, {MetaB}, MaxExtRenames) \/ Rebuilds)
       

SpecRebuild == Init /\ [][NextRebuild]_vars

\* ------------------------------------------------------------ the matcher
isExcluded(word) == toLowerCase(word) \in excludedWordsSet

\* NoteIndex.hasMatch
hasMatch(name) == Has(noteIndex, toLowerCase(name))

\* getMatchType asking the tag index before the heading index
getMatchType_TagFirst(phrase) ==
    IF isExcluded(phrase) THEN "null"
    ELSE LET key == toLowerCase(phrase)
         IN IF settings.detectNotes /\ hasMatch(phrase) THEN "note"
            ELSE IF settings.detectTags /\ Has(tagIndex, key) THEN "tag"
            ELSE IF settings.detectHeadings /\ Has(headingIndex, key) THEN "heading"
            ELSE IF settings.detectProperties /\ Has(propertyIndex, key) THEN "property"
            ELSE "null"

getMatchType(phrase) ==
    IF isExcluded(phrase) THEN "null"
    ELSE LET key == toLowerCase(phrase)
         IN IF settings.detectNotes /\ hasMatch(phrase) THEN "note"
            ELSE IF settings.detectHeadings /\ Has(headingIndex, key) THEN "heading"
            ELSE IF settings.detectTags /\ Has(tagIndex, key) THEN "tag"
            ELSE IF settings.detectProperties /\ Has(propertyIndex, key) THEN "property"
            ELSE "null"

hasAnyMatch(phrase) == getMatchType(phrase) # "null"

\* JavaScript strings count from 0: text[i], text.slice(a, b)
CharAt(text, i) == text[i + 1]

Slice(text, a, b) == SubSeq(text, a + 1, b)

\* while (wordStart > 0 && /\w/.test(text[wordStart - 1])) wordStart--
RECURSIVE ExpandLeft(_, _)
ExpandLeft(text, p) ==
    IF p > 0 /\ IsWordChar(CharAt(text, p - 1)) THEN ExpandLeft(text, p - 1) ELSE p

\* while (wordEnd < text.length && /\w/.test(text[wordEnd])) wordEnd++
RECURSIVE ExpandRight(_, _)
ExpandRight(text, p) ==
    IF p < Len(text) /\ IsWordChar(CharAt(text, p)) THEN ExpandRight(text, p + 1) ELSE p

\* the loop over /\w+/g.exec: from lastIndex, the next run of word characters
RECURSIVE ExecAll(_, _)
ExecAll(text, lastIndex) ==
    IF lastIndex >= Len(text) THEN <<>>
    ELSE IF ~IsWordChar(CharAt(text, lastIndex)) THEN ExecAll(text, lastIndex + 1)
    ELSE LET e == ExpandRight(text, lastIndex)
         IN <<[start |-> lastIndex, end |-> e]>> \o ExecAll(text, e)

ContextRadius == 100

Max(a, b) == IF a >= b THEN a ELSE b

Min(a, b) == IF a <= b THEN a ELSE b

NoPhrase == [none |-> TRUE]

RECURSIVE TryStarts(_, _, _, _, _)

\* TryStarts taking the word at endIdx into the phrase as well
TryStarts_Inclusive(context, words, cursorWordIndex, len, startOffset) ==
    IF startOffset >= len THEN NoPhrase
    ELSE LET startIdx == cursorWordIndex - startOffset
             endIdx   == startIdx + len
         IN IF startIdx < 0 \/ endIdx + 1 > Len(words)
            THEN TryStarts(context, words, cursorWordIndex, len, startOffset + 1)
            ELSE LET start  == words[startIdx + 1].start
                     end    == words[endIdx + 1].end
                     phrase == Slice(context, start, end)
                 IN IF hasAnyMatch(phrase)
                    THEN [phrase |-> phrase, start |-> start, end |-> end]
                    ELSE TryStarts(context, words, cursorWordIndex, len, startOffset + 1)

\* TryStarts trying the start farthest from the cursor word first
TryStarts_FarthestFirst(context, words, cursorWordIndex, len, startOffset) ==
    IF startOffset >= len THEN NoPhrase
    ELSE LET startIdx == cursorWordIndex - (len - 1 - startOffset)
             endIdx   == startIdx + len
         IN IF startIdx < 0 \/ endIdx > Len(words)
            THEN TryStarts(context, words, cursorWordIndex, len, startOffset + 1)
            ELSE LET start  == words[startIdx + 1].start
                     end    == words[endIdx].end
                     phrase == Slice(context, start, end)
                 IN IF hasAnyMatch(phrase)
                    THEN [phrase |-> phrase, start |-> start, end |-> end]
                    ELSE TryStarts(context, words, cursorWordIndex, len, startOffset + 1)

\* the inner loop of getPhraseAtRange: the candidates of len words, nearest start first
TryStarts(context, words, cursorWordIndex, len, startOffset) ==
    IF startOffset >= len THEN NoPhrase
    ELSE LET startIdx == cursorWordIndex - startOffset
             endIdx   == startIdx + len
         IN IF startIdx < 0 \/ endIdx > Len(words)
            THEN TryStarts(context, words, cursorWordIndex, len, startOffset + 1)
            ELSE LET start  == words[startIdx + 1].start
                     end    == words[endIdx].end
                     phrase == Slice(context, start, end)
                 IN IF hasAnyMatch(phrase)
                    THEN [phrase |-> phrase, start |-> start, end |-> end]
                    ELSE TryStarts(context, words, cursorWordIndex, len, startOffset + 1)

\* the outer loop: for (let len = maxPhraseWords; len >= 1; len--)
RECURSIVE TryLengths(_, _, _, _)
TryLengths(context, words, cursorWordIndex, len) ==
    IF len < 1 THEN NoPhrase
    ELSE LET r == TryStarts(context, words, cursorWordIndex, len, 0)
         IN IF r # NoPhrase THEN r
            ELSE TryLengths(context, words, cursorWordIndex, len - 1)

\* getPhraseAtRange on a text node and an offset in it; start and end are the offsets
\* of the phrase in the text (the code returns the phrase alone)
getPhraseAtRange(text, offset) ==
    LET wordStart == ExpandLeft(text, offset)
        wordEnd   == ExpandRight(text, offset)
    IN IF wordStart = wordEnd THEN NoPhrase
       ELSE LET contextStart   == Max(0, wordStart - ContextRadius)
                contextEnd     == Min(Len(text), wordEnd + ContextRadius)
                context        == Slice(text, contextStart, contextEnd)
                relativeOffset == wordStart - contextStart
                words          == ExecAll(context, 0)
                found          == {i \in DOMAIN words :
                                      /\ words[i].start <= relativeOffset
                                      /\ words[i].end >= relativeOffset}
            IN IF found = {} THEN NoPhrase
               ELSE LET cursorWordIndex == (CHOOSE i \in found : \A j \in found : i <= j) - 1
                        r == TryLengths(context, words, cursorWordIndex,
                                        settings.maxPhraseWords)
                    IN IF r = NoPhrase THEN NoPhrase
                       ELSE [phrase |-> r.phrase,
                             start  |-> contextStart + r.start,
                             end    |-> contextStart + r.end]

\* onMouseMove up to the call of getPhraseAtRange, on the text node under the pointer
MouseOver(text, offset) ==
    /\ hovered' = [text   |-> text,
                   offset |-> offset,
                   maxPhraseWords |-> settings.maxPhraseWords,
                   minWordLength  |-> settings.minWordLength,
                   excludedWords  |-> excludedWordsSet,
                   result |-> getPhraseAtRange(text, offset)]
    /\ UNCHANGED <<settings, excludedWordsSet, classified, rendered>>
    /\ UNCHANGED popoverVars
    /\ UNCHANGED editVars
    /\ UNCHANGED indexVars

\* the 'Max phrase words' slider of the settings tab
SetMaxPhraseWords(v) ==
    /\ settings' = [settings EXCEPT !.maxPhraseWords = v]
    /\ UNCHANGED hoverVars
    /\ UNCHANGED indexVars

\* ----------------------------------------------------------- SpecResolve
MaxTextLen == 5
MaxWords == 3

Alphabet == {"A", " "}

Texts == UNION {[1..n -> Alphabet] : n \in 0..MaxTextLen}

MaxShortLen == 3

ShortTexts == UNION {[1..n -> Alphabet] : n \in 0..MaxShortLen}

\* the vault of SpecResolve: titles, headings, tags and values of one to three words
ResolveFile(i) ==
    CASE i = 1 -> File(<<>>, <<"a", " ", "A">>, MD)
      [] i = 2 -> File(<<>>, <<"A">>, MD)
      [] OTHER -> NoFile

ResolveCache(i) ==
    CASE i = 1 -> [ headings    |-> << [heading |-> <<"a", " ", "A", " ", "a">>, line |-> 0] >>,
                    tags        |-> << [tag |-> <<"#", "a">>, line |-> 1] >>,
                    frontmatter |-> << <<"title", Str(<<"A">>)>> >> ]
      [] OTHER -> NoCache

ResolveCount == 1..2

\* the settings as loaded: maxPhraseWords is whatever the saved data holds
InitResolve ==
    \E n \in ResolveCount, k \in 0..MaxWords, ex \in {DefaultExcludedText, <<"a">>} :
        Loaded([f \in FileIds |-> ResolveFile(f)], [f \in FileIds |-> ResolveCache(f)], n,
               [DefaultSettings EXCEPT !.maxPhraseWords = k, !.excludedWords = ex])

\* the slider offers 1..10, here up to MaxWords
NextResolve ==
    \/ \E t \in Texts : \E offset \in 0..Len(t) : MouseOver(t, offset)
    \/ \E v \in 1..MaxWords : SetMaxPhraseWords(v)

SpecResolve == InitResolve /\ [][NextResolve]_vars

\* ------------------------------------------------------------ highlighting
\* findAllMatches: the candidates starting at word i (from 0), of len words and fewer
RECURSIVE MatchesAt(_, _, _, _)
MatchesAt(text, words, i, len) ==
    IF len < 1 THEN <<>>
    ELSE IF i + len > Len(words) THEN MatchesAt(text, words, i, len - 1)
    ELSE LET start  == words[i + 1].start
             end    == words[i + len].end
             phrase == Slice(text, start, end)
             type   == getMatchType(phrase)
         IN (IF Len(phrase) >= settings.minWordLength /\ type # "null"
             THEN <<[phrase |-> phrase, type |-> type, start |-> start, end |-> end]>>
             ELSE <<>>)
                \o MatchesAt(text, words, i, len - 1)

\* findAllMatches: the loop over the words, from word i on
RECURSIVE MatchesFrom(_, _, _)
MatchesFrom(text, words, i) ==
    IF i >= Len(words) THEN <<>>
    ELSE MatchesAt(text, words, i, settings.maxPhraseWords) \o MatchesFrom(text, words, i + 1)

findAllMatches(text) == MatchesFrom(text, ExecAll(text, 0), 0)

\* matches.sort((a, b) => (b.end - b.start) - (a.end - a.start)): longest first,
\* equal lengths in their order (Array.prototype.sort is stable)
RECURSIVE SortByLength(_)

\* SortByLength with the comparison turned round: shortest first
SortByLength_ShortestFirst(ms) ==
    IF ms = <<>> THEN <<>>
    ELSE LET m    == Head(ms)
             rest == SortByLength(Tail(ms))
             pos  == Cardinality({j \in DOMAIN rest :
                                    rest[j].end - rest[j].start < m.end - m.start})
         IN SubSeq(rest, 1, pos) \o <<m>> \o SubSeq(rest, pos + 1, Len(rest))

SortByLength(ms) ==
    IF ms = <<>> THEN <<>>
    ELSE LET m    == Head(ms)
             rest == SortByLength(Tail(ms))
             pos  == Cardinality({j \in DOMAIN rest :
                                    rest[j].end - rest[j].start > m.end - m.start})
         IN SubSeq(rest, 1, pos) \o <<m>> \o SubSeq(rest, pos + 1, Len(rest))

\* acceptedMatches.sort((a, b) => a.start - b.start)
RECURSIVE SortByStart(_)

\* SortByStart leaving the accepted matches in the order of their acceptance
SortByStart_Unsorted(ms) == ms

SortByStart(ms) ==
    IF ms = <<>> THEN <<>>
    ELSE LET m    == Head(ms)
             rest == SortByStart(Tail(ms))
             pos  == Cardinality({j \in DOMAIN rest : rest[j].start < m.start})
         IN SubSeq(rest, 1, pos) \o <<m>> \o SubSeq(rest, pos + 1, Len(rest))

\* the loop over sortedMatches: a match is accepted when none of its positions is
\* occupied, and then occupies them
RECURSIVE Accept(_, _, _)

\* Accept marking only the first position of an accepted match as occupied
Accept_MarksStartOnly(sortedMatches, acceptedMatches, occupied) ==
    IF sortedMatches = <<>> THEN acceptedMatches
    ELSE LET match == Head(sortedMatches)
             span  == match.start..(match.end - 1)
         IN IF span \cap occupied # {}
            THEN Accept(Tail(sortedMatches), acceptedMatches, occupied)
            ELSE Accept(Tail(sortedMatches), Append(acceptedMatches, match),
                        occupied \cup {match.start})

Accept(sortedMatches, acceptedMatches, occupied) ==
    IF sortedMatches = <<>> THEN acceptedMatches
    ELSE LET match == Head(sortedMatches)
             span  == match.start..(match.end - 1)
         IN IF span \cap occupied # {}
            THEN Accept(Tail(sortedMatches), acceptedMatches, occupied)
            ELSE Accept(Tail(sortedMatches), Append(acceptedMatches, match),
                        occupied \cup span)

TextPiece(t) == [span |-> FALSE, text |-> t]

SpanPiece(type, t) == [span |-> TRUE, type |-> type, text |-> t]

\* the children of the fragment: text nodes and spans, left to right
RECURSIVE Pieces(_, _, _)
Pieces(text, acceptedMatches, currentIndex) ==
    IF acceptedMatches = <<>>
    THEN IF currentIndex < Len(text)
         THEN <<TextPiece(Slice(text, currentIndex, Len(text)))>>
         ELSE <<>>
    ELSE LET match == Head(acceptedMatches)
         IN (IF match.start > currentIndex
             THEN <<TextPiece(Slice(text, currentIndex, match.start))>>
             ELSE <<>>)
                \o <<SpanPiece(match.type, Slice(text, match.start, match.end))>>
                \o Pieces(text, Tail(acceptedMatches), match.end)

\* no fragment is built: a fragment that is built has a span at least
NoFragment == <<>>

\* postProcessor while the plugin is disabled: it returns before it looks at the node
Unwrapped(text) ==
    [ text           |-> text,
      minWordLength  |-> settings.minWordLength,
      maxPhraseWords |-> settings.maxPhraseWords,
      enabled        |-> FALSE,
      matches        |-> <<>>,
      accepted       |-> <<>>,
      fragment       |-> NoFragment ]

\* postProcessor on one text node: its matches, the accepted ones in start order, and
\* the fragment that replaces the node (NoFragment when the node is left as it is)
postProcessor(text) ==
    LET matches         == findAllMatches(text)
        acceptedMatches == SortByStart(Accept(SortByLength(matches), <<>>, {}))
    IN IF ~settings.enabled THEN Unwrapped(text) ELSE
       [ text           |-> text,
         minWordLength  |-> settings.minWordLength,
         maxPhraseWords |-> settings.maxPhraseWords,
         enabled        |-> TRUE,
         matches        |-> matches,
         accepted       |-> acceptedMatches,
         fragment       |-> IF matches = <<>> \/ acceptedMatches = <<>>
                            THEN NoFragment
                            ELSE Pieces(text, acceptedMatches, 0) ]

\* the markdown post processor called on an element with one text node
Render(text) ==
    /\ rendered' = postProcessor(text)
    /\ UNCHANGED <<settings, excludedWordsSet, hovered, classified>>
    /\ UNCHANGED popoverVars
    /\ UNCHANGED editVars
    /\ UNCHANGED indexVars

\* the 'Min word length' text field: parseInt(v) || 3, for a text v that reads as n
SetMinWordLength(n) ==
    /\ settings' = [settings EXCEPT !.minWordLength = IF n = 0 THEN 3 ELSE n]
    /\ UNCHANGED hoverVars
    /\ UNCHANGED indexVars

\* --------------------------------------------------------- SpecHighlight
\* the vault of SpecHighlight: a word, a phrase that starts with it, and longer ones
HighlightFile(i) ==
    CASE i = 1 -> File(<<>>, <<"A">>, MD)
      [] i = 2 -> File(<<>>, <<"a", " ", "A">>, MD)
      [] OTHER -> NoFile

HighlightCache(i) ==
    CASE i = 2 -> [ headings    |-> << [heading |-> <<"A", " ", "a", "a">>, line |-> 0] >>,
                    tags        |-> << [tag |-> <<"#", "A">>, line |-> 1] >>,
                    frontmatter |-> << <<"title", Str(<<"a", "a">>)>> >> ]
      [] OTHER -> NoCache

\* the lengths typed into the 'Min word length' field
MinLengths == {-5, 0, 1, 2}

InitHighlight ==
    \E n \in ResolveCount, k \in 0..MaxWords :
        Loaded([f \in FileIds |-> HighlightFile(f)], [f \in FileIds |-> HighlightCache(f)], n,
               [DefaultSettings EXCEPT !.maxPhraseWords = k])

NextHighlight ==
    \/ \E t \in Texts : Render(t)
    \/ \E n \in MinLengths : SetMinWordLength(n)

SpecHighlight == InitHighlight /\ [][NextHighlight]_vars

\* ----------------------------------------------------------- SpecExclude
MaxExcludeLen == 3

ExcludeTexts == UNION {[1..n -> {"A", " ", ","}] : n \in 0..MaxExcludeLen}

\* the 'Excluded words' text area of the settings tab
SetExcludedWords(v) ==
    /\ settings' = [settings EXCEPT !.excludedWords = v]
    /\ excludedWordsSet' = updateExcludedWords(v)
    /\ UNCHANGED queryVars
    /\ UNCHANGED popoverVars
    /\ UNCHANGED editVars
    /\ UNCHANGED indexVars

InitExclude ==
    \E k \in 1..2 :
        Loaded([f \in FileIds |-> ResolveFile(f)], [f \in FileIds |-> ResolveCache(f)], 2,
               [DefaultSettings EXCEPT !.maxPhraseWords = k])

NextExclude ==
    \/ \E v \in ExcludeTexts : SetExcludedWords(v)
    \/ \E t \in ShortTexts : \E offset \in 0..Len(t) : MouseOver(t, offset)

SpecExclude == InitExclude /\ [][NextExclude]_vars

\* ---------------------------------------------------------- SpecClassify
\* a call of getMatchType, as postProcessor and the hover make it; recorded with
\* the flags and the indexes' answers at the time of the call
Classify(phrase) ==
    /\ classified' =
          [phrase   |-> phrase,
           type     |-> getMatchType(phrase),
           excluded |-> isExcluded(phrase),
           enabled  |-> [note     |-> settings.detectNotes,
                         heading  |-> settings.detectHeadings,
                         tag      |-> settings.detectTags,
                         property |-> settings.detectProperties],
           has      |-> [note     |-> hasMatch(phrase),
                         heading  |-> Has(headingIndex, toLowerCase(phrase)),
                         tag      |-> Has(tagIndex, toLowerCase(phrase)),
                         property |-> Has(propertyIndex, toLowerCase(phrase))]]
    /\ UNCHANGED <<settings, excludedWordsSet, hovered, rendered>>
    /\ UNCHANGED popoverVars
    /\ UNCHANGED editVars
    /\ UNCHANGED indexVars

\* onChange of the 'Detect Notes' toggle: the flag and saveSettings(), no rebuild
ToggleDetectNotes ==
    /\ settings' = [settings EXCEPT !.detectNotes = ~@]
    /\ last' = Event("toggle", 0, NoFile)
    /\ UNCHANGED hoverVars
    /\ UNCHANGED <<vault, tfile, cache, noteIndex, headingIndex, tagIndex, propertyIndex,
                   tasks, extRenames>>

\* the vault of SpecClassify: "aa" is a key of all four indexes, "bb" of the last
\* three, "cc" of the last two, "dd" of the property index alone; a second
\* document without metadata of its own
ClassifyFile(i) ==
    CASE i = 1 -> File(<<>>, <<"A", "a">>, MD)
      [] i = 2 -> File(<<>>, <<"Q">>, MD)
      [] OTHER -> NoFile

ClassifyCache(i) ==
    CASE i = 1 -> [ headings    |-> << [heading |-> <<"a", "A">>, line |-> 0],
                                       [heading |-> <<"B", "b">>, line |-> 1] >>,
                    tags        |-> << [tag |-> <<"#", "A", "A">>, line |-> 2],
                                       [tag |-> <<"#", "b", "b">>, line |-> 3],
                                       [tag |-> <<"#", "C", "c">>, line |-> 4] >>,
                    frontmatter |-> << <<"x", List(<< Str(<<"a", "a">>), Str(<<"b", "B">>),
                                                      Str(<<"c", "c">>), Str(<<"D", "d">>) >>)>> >> ]
      [] OTHER -> NoCache

\* the phrases asked about: in some index, in none, and a default excluded word
ClassifyPhrases ==
    { <<"A", "A">>, <<"a", "a">>, <<"b", "B">>, <<"C", "c">>, <<"d", "d">>, <<"e", "e">>,
      <<"t", "h", "e">> }

InitClassify ==
    \E ex \in {DefaultExcludedText, <<"a", "A">>} :
        Loaded([f \in FileIds |-> ClassifyFile(f)], [f \in FileIds |-> ClassifyCache(f)], 2,
               [DefaultSettings EXCEPT !.excludedWords = ex])

NextClassify ==
    \/ ToggleDetectNotes
    \/ Rebuilds
    \/ \E p \in ClassifyPhrases : Classify(p)

SpecClassify == InitClassify /\ [][NextClassify]_vars

\* ------------------------------------------------------------ SpecTokens
\* the letter e with acute accent, U+00E9, one UTF-16 unit: a letter that the
\* class \w does not match
EAcute == "U+00E9"

MaxTokenLen == 3

TokenTexts == UNION {[1..n -> {"A", EAcute, " "}] : n \in 0..MaxTokenLen}

\* the vault of SpecTokens: a title of ASCII letters and one with an accented letter
TokenFile(i) ==
    CASE i = 1 -> File(<<>>, <<"A">>, MD)
      [] i = 2 -> File(<<>>, <<"A", EAcute, "A">>, MD)
      [] OTHER -> NoFile

InitTokens ==
    \E k \in 1..2 :
        Loaded([f \in FileIds |-> TokenFile(f)], [f \in FileIds |-> NoCache], 2,
               [DefaultSettings EXCEPT !.maxPhraseWords = k])

NextTokens ==
    \/ \E t \in TokenTexts : Render(t)
    \/ \E t \in TokenTexts : \E offset \in 0..Len(t) : MouseOver(t, offset)

SpecTokens == InitTokens /\ [][NextTokens]_vars

\* ------------------------------------------------------------- the popover
\* the records of other files than the active one (all of them without active file)
RECURSIVE OtherFiles(_, _)
OtherFiles(records, activeFile) ==
    IF records = <<>> THEN <<>>
    ELSE IF activeFile = 0 \/ PathOf(tfile[Head(records).file]) # PathOf(tfile[activeFile])
         THEN <<Head(records)>> \o OtherFiles(Tail(records), activeFile)
         ELSE OtherFiles(Tail(records), activeFile)

\* showPopover: there is something to show for the phrase (activeFile: the file of
\* the active view, 0 for none)
HasResults(phrase, activeFile) ==
    LET key == toLowerCase(phrase)
        noteMatches     == IF settings.detectNotes THEN GetOrEmpty(noteIndex, key) ELSE <<>>
        headingMatches  == IF settings.detectHeadings THEN GetOrEmpty(headingIndex, key)
                                                      ELSE <<>>
        tagMatches      == IF settings.detectTags THEN GetOrEmpty(tagIndex, key) ELSE <<>>
        propertyMatches == IF settings.detectProperties THEN GetOrEmpty(propertyIndex, key)
                                                        ELSE <<>>
        currentFileHeading ==
            /\ activeFile # 0
            /\ settings.detectHeadings
            /\ cache[activeFile] # NoCache
            /\ \E i \in DOMAIN cache[activeFile].headings :
                   toLowerCase(cache[activeFile].headings[i].heading) = key
    IN ~( /\ Len(noteMatches) = 0
          /\ Len(OtherFiles(headingMatches, activeFile)) = 0
          /\ Len(OtherFiles(tagMatches, activeFile)) = 0
          /\ Len(OtherFiles(propertyMatches, activeFile)) = 0
          /\ ~currentFileHeading )

\* showPopover: the records each section is made from, those of the active file
\* left out of the headings, tags and properties
Matches(phrase, activeFile) ==
    LET key == toLowerCase(phrase)
    IN [ note     |-> IF settings.detectNotes THEN GetOrEmpty(noteIndex, key) ELSE <<>>,
         heading  |-> OtherFiles(IF settings.detectHeadings
                                 THEN GetOrEmpty(headingIndex, key) ELSE <<>>, activeFile),
         tag      |-> OtherFiles(IF settings.detectTags
                                 THEN GetOrEmpty(tagIndex, key) ELSE <<>>, activeFile),
         property |-> OtherFiles(IF settings.detectProperties
                                 THEN GetOrEmpty(propertyIndex, key) ELSE <<>>,
                                 activeFile) ]

\* list.slice(0, n): up to n elements from the start, and for a negative n all but
\* the last -n
SliceTo(list, n) ==
    IF n >= 0 THEN SubSeq(list, 1, Min(n, Len(list)))
              ELSE SubSeq(list, 1, Max(Len(list) + n, 0))

\* showPopover: the rows of the four sections
Rows(phrase, activeFile) ==
    [c \in {"note", "heading", "tag", "property"} |->
        SliceTo(Matches(phrase, activeFile)[c], settings.maxResults)]

\* the timer ids in use: of the pending timers, and those the plugin still holds
UsedTimers == {t.id : t \in timers} \cup {hoverTimeout, highlightTimeout}

\* window.setTimeout: an id no pending timer has and the plugin does not hold
FreshTimer ==
    CHOOSE id \in 1..(Cardinality(timers) + 3) :
        /\ id \notin UsedTimers
        /\ \A j \in 1..(id - 1) : j \in UsedTimers

\* window.clearTimeout(id)
ClearTimeout(ts, id) == {t \in ts : t.id # id}

\* hidePopover without its last statement: the lock is left as it is
hidePopover_KeepsLock(ts) ==
    /\ popoverEl' = NoPopover
    /\ timers' = ClearTimeout(ts, hoverTimeout)
    /\ hoverTimeout' = 0
    /\ lastPhrase' = <<>>
    /\ UNCHANGED isPopoverLocked

\* hidePopover, on the timers ts
hidePopover(ts) ==
    /\ popoverEl' = NoPopover
    /\ timers' = ClearTimeout(ts, hoverTimeout)
    /\ hoverTimeout' = 0
    /\ lastPhrase' = <<>>
    /\ isPopoverLocked' = FALSE

\* onMouseMove with the pointer on a text node of the document; disabled, while
\* typing and while the popover is locked the handler returns at once
onMouseMove(text, offset) ==
    /\ settings.enabled /\ ~isTyping /\ ~isPopoverLocked
    /\ LET result == getPhraseAtRange(text, offset)
       IN /\ hovered' = [text   |-> text,
                         offset |-> offset,
                         maxPhraseWords |-> settings.maxPhraseWords,
                         minWordLength  |-> settings.minWordLength,
                         excludedWords  |-> excludedWordsSet,
                         result |-> result]
          /\ IF result = NoPhrase
                THEN UNCHANGED <<timers, hoverTimeout>>
             ELSE IF result.phrase = lastPhrase /\ popoverEl # NoPopover
                THEN UNCHANGED <<timers, hoverTimeout>>
             ELSE /\ timers' = ClearTimeout(timers, hoverTimeout)
                                  \cup {[id |-> FreshTimer, kind |-> "show",
                                         phrase |-> result.phrase]}
                  /\ hoverTimeout' = FreshTimer
    /\ UNCHANGED <<popoverEl, lastPhrase, isPopoverLocked>>
    /\ UNCHANGED <<settings, excludedWordsSet, classified, rendered, editVars>>
    /\ UNCHANGED indexVars

\* the pointer enters the popover: its mouseenter listener, and onMouseMove with a
\* target inside the popover
MouseEnterPopover ==
    /\ popoverEl # NoPopover
    /\ ~isPopoverLocked
    /\ isPopoverLocked' = TRUE
    /\ UNCHANGED <<popoverEl, hoverTimeout, timers, lastPhrase>>
    /\ UNCHANGED <<settings, excludedWordsSet, queryVars, editVars>>
    /\ UNCHANGED indexVars

MaxHideTimers == 1

\* the pointer leaves the popover: its mouseleave listener; the grace timer is
\* recorded with the phrase of the popover that was left
MouseLeavePopover ==
    /\ popoverEl # NoPopover
    /\ isPopoverLocked
    /\ Cardinality({t \in timers : t.kind = "hide"}) < MaxHideTimers
    /\ isPopoverLocked' = FALSE
    /\ timers' = timers \cup {[id |-> FreshTimer, kind |-> "hide",
                                phrase |-> popoverEl.phrase]}
    /\ UNCHANGED <<popoverEl, hoverTimeout, lastPhrase>>
    /\ UNCHANGED <<settings, excludedWordsSet, queryVars, editVars>>
    /\ UNCHANGED indexVars

\* the callback of the timer onMouseMove set: lastPhrase, then showPopover while
\* activeFile is the file of the active view; the popover is recorded with what was
\* under the pointer at its last move, with isTyping, settings.enabled, the active
\* file and settings.maxResults at its creation, and with the rows of its sections
ShowTimerFires(t, activeFile) ==
    /\ t \in timers
    /\ t.kind = "show"
    /\ IF isPopoverLocked
          THEN /\ timers' = timers \ {t}
               /\ lastPhrase' = t.phrase
               /\ UNCHANGED <<popoverEl, hoverTimeout, isPopoverLocked>>
          ELSE /\ timers' = ClearTimeout(timers \ {t}, hoverTimeout)
               /\ hoverTimeout' = 0
               /\ lastPhrase' = <<>>
               /\ isPopoverLocked' = FALSE
               /\ popoverEl' = IF HasResults(t.phrase, activeFile)
                                THEN [phrase  |-> t.phrase,
                                      under   |-> hovered.result,
                                      typing  |-> isTyping,
                                      enabled |-> settings.enabled,
                                      activeFile |-> activeFile,
                                      maxResults |-> settings.maxResults,
                                      rows    |-> Rows(t.phrase, activeFile)]
                                ELSE NoPopover
    /\ UNCHANGED <<settings, excludedWordsSet, queryVars, editVars>>
    /\ UNCHANGED indexVars

\* the callback of the timer the mouseleave listener set
HideTimerFires(t) ==
    /\ t \in timers
    /\ t.kind = "hide"
    /\ IF isPopoverLocked
          THEN /\ timers' = timers \ {t}
               /\ UNCHANGED <<popoverEl, hoverTimeout, lastPhrase, isPopoverLocked>>
          ELSE hidePopover(timers \ {t})
    /\ UNCHANGED <<settings, excludedWordsSet, queryVars, editVars>>
    /\ UNCHANGED indexVars

\* a click in the document outside the popover
ClickOutside ==
    /\ IF popoverEl # NoPopover THEN hidePopover(timers) ELSE UNCHANGED popoverVars
    /\ UNCHANGED <<settings, excludedWordsSet, queryVars, editVars>>
    /\ UNCHANGED indexVars

\* workspace.on('editor-change')
EditorChange ==
    /\ isTyping' = TRUE
    /\ timers' = ClearTimeout(timers, highlightTimeout)
                     \cup {[id |-> FreshTimer, kind |-> "typing", phrase |-> <<>>]}
    /\ highlightTimeout' = FreshTimer
    /\ inserted' = inserted
    /\ UNCHANGED <<popoverEl, hoverTimeout, lastPhrase, isPopoverLocked>>
    /\ UNCHANGED <<settings, excludedWordsSet, queryVars>>
    /\ UNCHANGED indexVars

\* the callback of the timer of the editor-change handler, 2000 ms after the change
TypingTimerFires(t) ==
    /\ t \in timers
    /\ t.kind = "typing"
    /\ isTyping' = FALSE
    /\ timers' = timers \ {t}
    /\ UNCHANGED <<highlightTimeout, inserted>>
    /\ UNCHANGED <<popoverEl, hoverTimeout, lastPhrase, isPopoverLocked>>
    /\ UNCHANGED <<settings, excludedWordsSet, queryVars>>
    /\ UNCHANGED indexVars

\* insertLink, called from a button of the popover: without an active editor view or
\* with an empty lastPhrase it returns, else it replaces the first occurrence of
\* lastPhrase in the editor
insertLink(view) ==
    inserted' = [popover  |-> popoverEl.phrase,
                 view     |-> view,
                 replaced |-> IF ~view \/ lastPhrase = <<>> THEN NoPhrase
                              ELSE [phrase |-> lastPhrase]]

\* a click on the insert button of a row, the pointer being inside the popover
\* (view: there is an active editor view): insertLink, then hidePopover
ClickInsert(view) ==
    /\ popoverEl # NoPopover
    /\ isPopoverLocked
    /\ insertLink(view)
    /\ hidePopover(timers)
    /\ UNCHANGED <<isTyping, highlightTimeout>>
    /\ UNCHANGED <<settings, excludedWordsSet, queryVars>>
    /\ UNCHANGED indexVars

\* a click on a row of the popover: its navigation, then hidePopover
ClickRow ==
    /\ popoverEl # NoPopover
    /\ isPopoverLocked
    /\ hidePopover(timers)
    /\ UNCHANGED editVars
    /\ UNCHANGED <<settings, excludedWordsSet, queryVars>>
    /\ UNCHANGED indexVars

\* -------------------------------------------------------------- SpecHover
InitHover ==
    Loaded([f \in FileIds |-> ResolveFile(f)], [f \in FileIds |-> ResolveCache(f)], 2,
           DefaultSettings)

NextHover ==
    \/ \E t \in ShortTexts : \E offset \in 0..Len(t) : onMouseMove(t, offset)
    \/ MouseEnterPopover
    \/ MouseLeavePopover
    \/ \E t \in timers : \E activeFile \in {0} \cup vault : ShowTimerFires(t, activeFile)
    \/ \E t \in timers : HideTimerFires(t)
    \/ ClickOutside

SpecHover == InitHover /\ [][NextHover]_vars

\* ------------------------------------------------------------- SpecTyping
\* the texts under the pointer: nothing that matches, a word, a phrase
FewTexts == { <<>>, <<"A">>, <<"A", " ", "A">> }

\* the pointer moves over one of the few texts
MouseMoves == \E t \in FewTexts : \E offset \in 0..Len(t) : onMouseMove(t, offset)

\* the timers of the hover fire, the pointer enters or leaves the popover, a click
PopoverSteps ==
    \/ MouseEnterPopover
    \/ MouseLeavePopover
    \/ \E t \in timers : \E activeFile \in {0} \cup vault : ShowTimerFires(t, activeFile)
    \/ \E t \in timers : HideTimerFires(t)
    \/ ClickOutside

\* the hover with edits in the editor
NextTyping ==
    \/ MouseMoves
    \/ PopoverSteps
    \/ EditorChange
    \/ \E t \in timers : TypingTimerFires(t)

SpecTyping == InitHover /\ [][NextTyping]_vars

\* ------------------------------------------------------------- SpecInsert
\* the hover with the buttons of the popover
NextInsert ==
    \/ MouseMoves
    \/ PopoverSteps
    \/ \E view \in BOOLEAN : ClickInsert(view)
    \/ ClickRow

SpecInsert == InitHover /\ [][NextInsert]_vars

\* ------------------------------------------------------------- SpecActive
\* the vault of SpecActive: "a" is a tag of the first document and nothing else, "a a"
\* is the title of the second
ActiveFile(i) ==
    CASE i = 1 -> File(<<>>, <<"N">>, MD)
      [] i = 2 -> File(<<>>, <<"A", " ", "A">>, MD)
      [] OTHER -> NoFile

ActiveCache(i) ==
    CASE i = 1 -> [ headings    |-> <<>>,
                    tags        |-> << [tag |-> <<"#", "A">>, line |-> 0] >>,
                    frontmatter |-> <<>> ]
      [] OTHER -> NoCache

InitActive ==
    Loaded([f \in FileIds |-> ActiveFile(f)], [f \in FileIds |-> ActiveCache(f)], 2,
           DefaultSettings)

\* the hover, whichever document the active view shows
NextActive ==
    \/ MouseMoves
    \/ PopoverSteps

SpecActive == InitActive /\ [][NextActive]_vars

\* --------------------------------------------------------------- SpecRows
\* the 'Max results' text field: parseInt(v) || 10, for a text v that reads as n
SetMaxResults(n) ==
    /\ settings' = [settings EXCEPT !.maxResults = IF n = 0 THEN 10 ELSE n]
    /\ UNCHANGED hoverVars
    /\ UNCHANGED indexVars

\* the numbers typed into the 'Max results' field
MaxResultsInputs == {-1, 0, 1, 2}

\* the vault of SpecRows: three notes called AA in three folders, each with the
\* heading, the tag and a property value of that name
RowsFile(i) ==
    CASE i = 1 -> File(<<>>, <<"A", "A">>, MD)
      [] i = 2 -> File(<<"d">>, <<"A", "a">>, MD)
      [] i = 3 -> File(<<"e">>, <<"a", "a">>, MD)
      [] OTHER -> NoFile

RowsCache(i) ==
    IF i \in 1..3
    THEN [ headings    |-> << [heading |-> <<"A", "A">>, line |-> i] >>,
           tags        |-> << [tag |-> <<"#", "a", "a">>, line |-> i + 1] >>,
           frontmatter |-> << <<"x", Str(<<"a", "A">>)>> >> ]
    ELSE NoCache

RowsTexts == { <<>>, <<"A", "A">> }

InitRows ==
    Loaded([f \in FileIds |-> RowsFile(f)], [f \in FileIds |-> RowsCache(f)], 3,
           DefaultSettings)

NextRows ==
    \/ \E t \in RowsTexts : \E offset \in 0..Len(t) : onMouseMove(t, offset)
    \/ PopoverSteps
    \/ \E n \in MaxResultsInputs : SetMaxResults(n)

SpecRows == InitRows /\ [][NextRows]_vars

\* ------------------------------------------------------------- SpecWindow
\* a word of n letters
LongWord(n) == [i \in 1..n |-> "a"]

\* the vault of SpecWindow: two notes whose titles, of two words, are one character
\* longer than the context reaches from the hovered word
WindowFile(i) ==
    CASE i = 1 -> File(<<>>, LongWord(ContextRadius - 1) \o <<" ", "A">>, MD)
      [] i = 2 -> File(<<>>, <<"A", " ">> \o LongWord(ContextRadius - 1), MD)
      [] OTHER -> NoFile

\* the texts hovered: each title as it is, and with one more letter on its long word
WindowTexts ==
    { LongWord(ContextRadius - 1) \o <<" ", "A">>,
      LongWord(ContextRadius) \o <<" ", "A">>,
      <<"A", " ">> \o LongWord(ContextRadius - 1),
      <<"A", " ">> \o LongWord(ContextRadius) }

InitWindow ==
    Loaded([f \in FileIds |-> WindowFile(f)], [f \in FileIds |-> NoCache], 2,
           DefaultSettings)

NextWindow ==
    \E t \in WindowTexts : \E offset \in 0..Len(t) : MouseOver(t, offset)

SpecWindow == InitWindow /\ [][NextWindow]_vars

\* ------------------------------------------------------------ SpecEnabled
\* the 'Toggle MagicLink' header button and the 'Enable MagicLink' toggle: the flag,
\* saveSettings, the button states, and the rerender of the active view's preview
\* (view: there is an active markdown view), which runs the post processor again
ToggleEnabled(view) ==
    /\ settings' = [settings EXCEPT !.enabled = ~@]
    /\ rendered' = IF ~view \/ rendered = NoRender THEN rendered
                   ELSE IF settings.enabled THEN Unwrapped(rendered.text)
                   ELSE [postProcessor(rendered.text) EXCEPT !.enabled = TRUE]
    /\ UNCHANGED <<excludedWordsSet, hovered, classified>>
    /\ UNCHANGED popoverVars
    /\ UNCHANGED editVars
    /\ UNCHANGED indexVars

NextEnabled ==
    \/ MouseMoves
    \/ PopoverSteps
    \/ \E t \in FewTexts : Render(t)
    \/ \E view \in BOOLEAN : ToggleEnabled(view)

SpecEnabled == InitHover /\ [][NextEnabled]_vars

\* ------------------------------------------------------------- SpecMinLen
\* the documents SpecMinLen creates
MinLenNames == { File(<<>>, <<"N">>, MD), File(<<"d">>, <<"N">>, MD) }

\* the document events without renames, and the 'Min word length' field
NextMinLen ==
    \/ \E f \in 1..MaxFewFiles : Fresh(f, 1..MaxFewFiles)
          /\ \E tf \in MinLenNames, c \in Metas : Create(f, tf, c)
    \/ \E f \in 1..MaxFewFiles : Delete(f)
    \/ \E f \in 1..MaxFewFiles, c \in Metas : Changed(f, c)
    \/ \E n \in MinLengths : SetMinWordLength(n)

SpecMinLen == Init /\ [][NextMinLen]_vars

\* ------------------------------------------------------ what the claims use
\* a markdown document that is in the collection
IsDocument(f) == f \in vault /\ tfile[f].extension = MD

\* file.basename.toLowerCase() of the object as it is now
LowerName(f) == toLowerCase(tfile[f].basename)

\* the files of the title records, and of the records of one of the three maps
RecordsOf(map) == UNION {{map[k][i] : i \in DOMAIN map[k]} : k \in DOMAIN map}

FilesOf(map) == {r.file : r \in RecordsOf(map)}

TitleFiles == UNION {{noteIndex[k][i] : i \in DOMAIN noteIndex[k]} : k \in DOMAIN noteIndex}

\* C1: after every handler has returned, every record of the title, heading, tag and
\* property mappings refers to a file that is in the vault as a markdown document
C1_RecordsOfPresentDocuments ==
    /\ \A f \in TitleFiles : IsDocument(f)
    /\ \A f \in FilesOf(headingIndex) : IsDocument(f)
    /\ \A f \in FilesOf(tagIndex) : IsDocument(f)
    /\ \A f \in FilesOf(propertyIndex) : IsDocument(f)

\* how many times x occurs in the sequence s
Count(s, x) == Cardinality({i \in DOMAIN s : s[i] = x})

\* C2: the title mapping holds exactly one record for each markdown document of the
\* vault, under the key that is the document's current lowercased basename, and
\* nothing else
C2_TitleMappingExact ==
    /\ \A f \in FileIds : IsDocument(f) =>
          /\ Has(noteIndex, LowerName(f))
          /\ Count(noteIndex[LowerName(f)], f) = 1
    /\ \A k \in DOMAIN noteIndex : \A i \in DOMAIN noteIndex[k] :
          /\ IsDocument(noteIndex[k][i])
          /\ k = LowerName(noteIndex[k][i])

\* C6: every record stored under key K normalizes to K: the title record's file has
\* the current lowercased basename K, the heading's text lowercased is K, the tag's
\* text without its leading '#' lowercased is K, the property value lowercased is K
C6_RecordsNormalizeToKey ==
    /\ \A k \in DOMAIN noteIndex : \A i \in DOMAIN noteIndex[k] :
          k = LowerName(noteIndex[k][i])
    /\ \A k \in DOMAIN headingIndex : \A i \in DOMAIN headingIndex[k] :
          k = toLowerCase(headingIndex[k][i].heading)
    /\ \A k \in DOMAIN tagIndex : \A i \in DOMAIN tagIndex[k] :
          LET tag == tagIndex[k][i].tag
          IN k = toLowerCase(IF tag[1] = "#" THEN SubSeq(tag, 2, Len(tag)) ELSE tag)
    /\ \A k \in DOMAIN propertyIndex : \A i \in DOMAIN propertyIndex[k] :
          k = toLowerCase(propertyIndex[k][i].value)

\* ------------------------------------------------ records a document should have
\* the heading records of document f under key k, from the metadata c, in order
HeadingRecordsFor(f, c, k) ==
    LET hs == SelectSeq(c.headings, LAMBDA h : toLowerCase(h.heading) = k)
    IN [i \in 1..Len(hs) |-> [file |-> f, heading |-> hs[i].heading, line |-> hs[i].line]]

TagRecordsFor(f, c, k) ==
    LET ts == SelectSeq(c.tags, LAMBDA t : toLowerCase(SubSeq(t.tag, 2, Len(t.tag))) = k)
    IN [i \in 1..Len(ts) |-> [file |-> f, tag |-> ts[i].tag, line |-> ts[i].line]]

\* the (property, value) pairs of the frontmatter, lists expanded, in order
RECURSIVE Flatten(_)
Flatten(entries) ==
    IF entries = <<>> THEN <<>>
    ELSE LET e  == Head(entries)
             vs == IF e[2].t = "array" THEN e[2].v ELSE <<e[2]>>
         IN [i \in 1..Len(vs) |-> [property |-> e[1], value |-> vs[i]]] \o Flatten(Tail(entries))

PropertyRecordsFor(f, c, k, minLen) ==
    LET ps == SelectSeq(Flatten(c.frontmatter),
                        LAMBDA p : /\ p.property # "position"
                                   /\ p.value.t = "string"
                                   /\ Len(p.value.v) >= minLen
                                   /\ toLowerCase(p.value.v) = k)
    IN [i \in 1..Len(ps) |-> [file |-> f, property |-> ps[i].property, value |-> ps[i].value.v]]

\* what document f should contribute under key k of each map, given the metadata c
\* and the settings s
Expected(f, c, s, k) ==
    IF c = NoCache THEN Maps(<<>>, <<>>, <<>>)
    ELSE Maps(IF s.detectHeadings THEN HeadingRecordsFor(f, c, k) ELSE <<>>,
              IF s.detectTags THEN TagRecordsFor(f, c, k) ELSE <<>>,
              IF s.detectProperties THEN PropertyRecordsFor(f, c, k, s.minWordLength) ELSE <<>>)

\* a list without the entries of file f: title records, and records of the maps
TitlesWithout(list, f) == SelectSeq(list, LAMBDA g : g # f)

RecordsWithout(list, f) == SelectSeq(list, LAMBDA r : r.file # f)

RecordsFrom(list, f) == SelectSeq(list, LAMBDA r : r.file = f)

AllKeys(a, b) == DOMAIN a \cup DOMAIN b

\* the step is the rename of markdown document f to another markdown path
RenamedDocument(f) ==
    /\ f \in vault /\ f \in vault'
    /\ tfile'[f] # tfile[f]
    /\ tfile[f].extension = MD /\ tfile'[f].extension = MD

\* after the rename of f: its heading, tag and property records were removed and
\* re-created (appended) from its current metadata, others kept
RecordsRecreated(f) ==
    \A k \in AllKeys(headingIndex, headingIndex') \cup AllKeys(tagIndex, tagIndex')
                \cup AllKeys(propertyIndex, propertyIndex') :
        LET e == Expected(f, cache'[f], settings', k)
        IN /\ GetOrEmpty(headingIndex', k)
                = RecordsWithout(GetOrEmpty(headingIndex, k), f) \o e.heading
           /\ GetOrEmpty(tagIndex', k)
                = RecordsWithout(GetOrEmpty(tagIndex, k), f) \o e.tag
           /\ GetOrEmpty(propertyIndex', k)
                = RecordsWithout(GetOrEmpty(propertyIndex, k), f) \o e.property

\* the title records, in a list, of the documents other than f
OtherDocuments(list, f) == SelectSeq(list, LAMBDA g : g # f /\ IsDocument(g))

\* after the rename of f: its title record is the newest one under its new key, and
\* the other documents' records under the old key are as they were
TitleMoved(f) ==
    LET oldKey == toLowerCase(tfile[f].basename)
        newKey == toLowerCase(tfile'[f].basename)
    IN /\ Has(noteIndex', newKey)
       /\ noteIndex'[newKey][Len(noteIndex'[newKey])] = f
       /\ OtherDocuments(GetOrEmpty(noteIndex', oldKey), f)
            = OtherDocuments(GetOrEmpty(noteIndex, oldKey), f)

NotUnderOldKey(f) ==
    Count(GetOrEmpty(noteIndex', toLowerCase(tfile[f].basename)), f) = 0

\* C3 as stated: when a document is renamed from N to N', afterwards its title record
\* is under lowercase(N') and no longer under lowercase(N), the other documents named
\* N keep their records and order, and its heading, tag and property records were
\* removed and re-created from its current metadata
C3_RenameMovesTitle ==
    [][\A f \in FileIds : RenamedDocument(f) =>
            TitleMoved(f) /\ NotUnderOldKey(f) /\ RecordsRecreated(f)]_vars

\* C3 amended: as C3, but the record leaves the key lowercase(N) only when
\* lowercase(N') is another key; when N and N' differ in case or folder only, the
\* document has exactly one record under that key, as its newest record
C3_RenameMovesTitleUnlessSameKey ==
    [][\A f \in FileIds : RenamedDocument(f) =>
            /\ TitleMoved(f)
            /\ toLowerCase(tfile'[f].basename) # toLowerCase(tfile[f].basename)
                    => NotUnderOldKey(f)
            /\ toLowerCase(tfile'[f].basename) = toLowerCase(tfile[f].basename)
                    => Count(noteIndex'[toLowerCase(tfile[f].basename)], f) = 1
            /\ RecordsRecreated(f)]_vars

\* C3 witness: a markdown document was just renamed to a name with another key, two
\* other documents still hold the old key, and the renamed one has records of its own
C3_Witness ==
    /\ last.op = "rename"
    /\ last.old.extension = MD
    /\ IsDocument(last.file)
    /\ LowerName(last.file) # toLowerCase(last.old.basename)
    /\ Len(GetOrEmpty(noteIndex, toLowerCase(last.old.basename))) >= 2
    /\ last.file \in FilesOf(headingIndex)
    /\ \E g \in FilesOf(headingIndex) : g # last.file

\* the step is the deletion of markdown document f
DeletedDocument(f) ==
    /\ f \in vault /\ f \notin vault'
    /\ tfile[f].extension = MD

\* C4: deleting document D removes from all four mappings exactly the records of D:
\* every key's list afterwards is the list before without D's records (an absent key
\* counting as the empty list), so other documents' records and order are unchanged
C4_RemovalExact ==
    [][\A f \in FileIds : DeletedDocument(f) =>
            /\ \A k \in AllKeys(noteIndex, noteIndex') :
                  GetOrEmpty(noteIndex', k) = TitlesWithout(GetOrEmpty(noteIndex, k), f)
            /\ \A k \in AllKeys(headingIndex, headingIndex') :
                  GetOrEmpty(headingIndex', k) = RecordsWithout(GetOrEmpty(headingIndex, k), f)
            /\ \A k \in AllKeys(tagIndex, tagIndex') :
                  GetOrEmpty(tagIndex', k) = RecordsWithout(GetOrEmpty(tagIndex, k), f)
            /\ \A k \in AllKeys(propertyIndex, propertyIndex') :
                  GetOrEmpty(propertyIndex', k) = RecordsWithout(GetOrEmpty(propertyIndex, k), f)
       ]_vars

\* C5: no mapping has a key whose list is empty
C5_NoEmptyEntries ==
    /\ \A k \in DOMAIN noteIndex : noteIndex[k] # <<>>
    /\ \A k \in DOMAIN headingIndex : headingIndex[k] # <<>>
    /\ \A k \in DOMAIN tagIndex : tagIndex[k] # <<>>
    /\ \A k \in DOMAIN propertyIndex : propertyIndex[k] # <<>>

\* C5 witness: the markdown document just deleted was the last one under its title
\* key, which is gone, while other title keys and heading keys remain
C5_Witness ==
    /\ last.op = "delete"
    /\ last.old.extension = MD
    /\ ~Has(noteIndex, toLowerCase(last.old.basename))
    /\ DOMAIN noteIndex # {}
    /\ DOMAIN headingIndex # {}

\* the removal the delete handler performs for file f, on the current indexes
Removal(ni, m, f) ==
    [note |-> removeFile(ni, tfile, f), maps |-> removeFileFromIndexes(m, tfile, f)]

\* C9: removal is idempotent: from every index state and for every file, removing it
\* a second time leaves all four mappings as the first removal left them
C9_RemovalIdempotent ==
    \A f \in FileIds :
        LET once == Removal(noteIndex, CurrentMaps, f)
        IN Removal(once.note, once.maps, f) = once

\* C9 witness: a document was just deleted and removing one of the remaining
\* documents would remove several records under one key
C9_Witness ==
    /\ last.op = "delete"
    /\ last.old.extension = MD
    /\ \E f \in vault :
          /\ Removal(noteIndex, CurrentMaps, f).note # noteIndex
          /\ \E k \in DOMAIN headingIndex : Len(RecordsFrom(headingIndex[k], f)) >= 2

\* the keys a document with metadata c can have records under
KeysOfMeta(c) ==
    {toLowerCase(c.headings[i].heading) : i \in DOMAIN c.headings}
        \cup {toLowerCase(SubSeq(c.tags[i].tag, 2, Len(c.tags[i].tag))) : i \in DOMAIN c.tags}
        \cup {toLowerCase(p.value.v) :
                 p \in {q \in {Flatten(c.frontmatter)[i] : i \in DOMAIN Flatten(c.frontmatter)} :
                           q.value.t = "string"}}

KnownKeys ==
    DOMAIN headingIndex \cup DOMAIN tagIndex \cup DOMAIN propertyIndex
        \cup UNION {KeysOfMeta(c) : c \in Metas}

\* the three maps hold, for document f, exactly the records of its current metadata
MatchesMetadata(f) ==
    \A k \in KnownKeys :
        LET e == Expected(f, cache[f], settings, k)
        IN /\ RecordsFrom(GetOrEmpty(headingIndex, k), f) = e.heading
           /\ RecordsFrom(GetOrEmpty(tagIndex, k), f) = e.tag
           /\ RecordsFrom(GetOrEmpty(propertyIndex, k), f) = e.property

\* C7: once the events and the settings-triggered rebuilds have completed, the
\* heading, tag and property mappings hold for every present document exactly one
\* record per heading, tag and qualifying property value of its last delivered
\* metadata (of the categories that are enabled): no duplicates, nothing superseded
C7_RecordsMatchMetadata ==
    tasks = <<>> => \A f \in FileIds : IsDocument(f) => MatchesMetadata(f)

\* the records document f lacks: fewer records under some key than its metadata gives
LacksRecords(f) ==
    \E k \in KnownKeys :
        LET e == Expected(f, cache[f], settings, k)
        IN \/ Len(RecordsFrom(GetOrEmpty(headingIndex, k), f)) < Len(e.heading)
           \/ Len(RecordsFrom(GetOrEmpty(tagIndex, k), f)) < Len(e.tag)
           \/ Len(RecordsFrom(GetOrEmpty(propertyIndex, k), f)) < Len(e.property)

\* C8: index mutation is serialized: whenever another handler or a query can run (in
\* every state, a toggle awaiting its save apart, whose rebuild has not begun), no
\* present document has records that were removed and not yet re-added
C8_NoPartialIndex ==
    (\A i \in DOMAIN tasks : tasks[i].pc # "save")
        => \A f \in FileIds : IsDocument(f) => ~LacksRecords(f)

\* the word tokens of the hovered text that the returned phrase covers
TokensSpanned ==
    LET words == ExecAll(hovered.text, 0)
    IN {i \in DOMAIN words : /\ words[i].start < hovered.result.end
                              /\ words[i].end > hovered.result.start}

\* C10: the phrase getPhraseAtRange returns for a text, an offset and maxPhraseWords = k
\* spans at most k word tokens of the text and contains the token at the offset; when
\* k < 1 nothing is returned
C10_PhraseWithinWindow ==
    hovered # NoHover =>
        /\ hovered.maxPhraseWords < 1 => hovered.result = NoPhrase
        /\ hovered.result # NoPhrase =>
              /\ hovered.result.phrase
                    = Slice(hovered.text, hovered.result.start, hovered.result.end)
              /\ Cardinality(TokensSpanned) <= hovered.maxPhraseWords
              /\ hovered.result.start <= ExpandLeft(hovered.text, hovered.offset)
              /\ ExpandRight(hovered.text, hovered.offset) <= hovered.result.end
              /\ ExpandLeft(hovered.text, hovered.offset)
                    < ExpandRight(hovered.text, hovered.offset)

\* C10 witness: with maxPhraseWords = 2 a text of three words that is itself a heading
\* was hovered, and the phrase returned covers two of its words
C10_Witness ==
    /\ hovered # NoHover
    /\ hovered.maxPhraseWords = 2
    /\ Len(ExecAll(hovered.text, 0)) = 3
    /\ Has(headingIndex, toLowerCase(hovered.text))
    /\ hovered.result # NoPhrase
    /\ Cardinality(TokensSpanned) = 2

\* --------------------------------------------- the candidates of the last hover
\* the word tokens of the hovered text
HoverTokens == ExecAll(hovered.text, 0)

\* the hover point touches a word: the pivot token exists
HasPivot ==
    ExpandLeft(hovered.text, hovered.offset) < ExpandRight(hovered.text, hovered.offset)

Pivot ==
    CHOOSE i \in DOMAIN HoverTokens :
        HoverTokens[i].start = ExpandLeft(hovered.text, hovered.offset)

\* the n-token candidates that contain the pivot, by the index of their first token
Candidates(n) ==
    {s \in DOMAIN HoverTokens : s <= Pivot /\ Pivot <= s + n - 1 /\ s + n - 1 <= Len(HoverTokens)}

CandidateText(s, n) ==
    Slice(hovered.text, HoverTokens[s].start, HoverTokens[s + n - 1].end)

\* the first token of the returned phrase
ResultFirst == CHOOSE i \in TokensSpanned : \A j \in TokensSpanned : i <= j

\* C11: getPhraseAtRange returns the longest match around the point: no candidate
\* containing the pivot with more tokens (up to maxPhraseWords) classifies; among the
\* classifying candidates of as many tokens it returns the one that starts nearest to
\* the pivot; it returns none only if no candidate of 1..maxPhraseWords tokens
\* containing the pivot classifies
C11_LongestNearest ==
    (hovered # NoHover /\ HasPivot) =>
        /\ hovered.result # NoPhrase =>
              LET n == Cardinality(TokensSpanned)
              IN /\ hovered.result.phrase = CandidateText(ResultFirst, n)
                 /\ ResultFirst \in Candidates(n)
                 /\ hasAnyMatch(hovered.result.phrase)
                 /\ \A m \in (n + 1)..hovered.maxPhraseWords : \A s \in Candidates(m) :
                        ~hasAnyMatch(CandidateText(s, m))
                 /\ \A s \in Candidates(n) :
                        hasAnyMatch(CandidateText(s, n)) => s <= ResultFirst
        /\ hovered.result = NoPhrase =>
              \A m \in 1..hovered.maxPhraseWords : \A s \in Candidates(m) :
                  ~hasAnyMatch(CandidateText(s, m))

\* C11 witness: the phrase returned has two tokens and starts at the pivot, while the
\* two-token candidate that ends at the pivot classifies as well and a single token
\* would classify too
C11_Witness ==
    /\ hovered # NoHover
    /\ HasPivot
    /\ hovered.result # NoPhrase
    /\ Cardinality(TokensSpanned) = 2
    /\ ResultFirst = Pivot
    /\ Pivot - 1 \in Candidates(2)
    /\ hasAnyMatch(CandidateText(Pivot - 1, 2))
    /\ hasAnyMatch(CandidateText(Pivot, 1))

\* the phrase is a key of an index whose detection is on (the exclusion list apart)
Indexed(phrase) ==
    \/ settings.detectNotes /\ Has(noteIndex, toLowerCase(phrase))
    \/ settings.detectHeadings /\ Has(headingIndex, toLowerCase(phrase))
    \/ settings.detectTags /\ Has(tagIndex, toLowerCase(phrase))
    \/ settings.detectProperties /\ Has(propertyIndex, toLowerCase(phrase))

\* C13: the exclusion list applies to single-word candidates only: a phrase returned
\* that is one token is not in the excluded words, and a candidate of two or more
\* tokens is never rejected because of the list, whatever its entries: when such a
\* candidate around the pivot is indexed, a phrase of at least as many tokens is
\* returned
C13_ExclusionSingleWordsOnly ==
    (hovered # NoHover /\ HasPivot) =>
        /\ (hovered.result # NoPhrase /\ Cardinality(TokensSpanned) = 1)
              => toLowerCase(hovered.result.phrase) \notin hovered.excludedWords
        /\ \A n \in 2..hovered.maxPhraseWords : \A c \in Candidates(n) :
              Indexed(CandidateText(c, n)) =>
                  /\ hovered.result # NoPhrase
                  /\ Cardinality(TokensSpanned) >= n

\* C12: the minimum-length rule holds on both matching paths: neither the phrase
\* getPhraseAtRange returns nor a match findAllMatches reports is shorter than
\* settings.minWordLength
C12_MinLengthOnBothPaths ==
    /\ (hovered # NoHover /\ hovered.result # NoPhrase)
          => Len(hovered.result.phrase) >= hovered.minWordLength
    /\ rendered # NoRender
          => \A i \in DOMAIN rendered.matches :
                Len(rendered.matches[i].phrase) >= rendered.minWordLength

\* the categories in the order getMatchType asks them
Categories == <<"note", "heading", "tag", "property">>

\* the categories, by position, whose flag was on and whose index had the key
Live(c) == {i \in DOMAIN Categories : c.enabled[Categories[i]] /\ c.has[Categories[i]]}

\* C14: getMatchType reports the first category, in the order note, heading, tag,
\* property, whose flag is enabled and whose index has the lowercased key; a
\* category whose flag is off is never reported; the result is none exactly when
\* the phrase is excluded or no enabled category has the key
C14_FirstEnabledCategory ==
    classified # NoClassified =>
        LET c == classified
        IN /\ c.type = "null" <=> (c.excluded \/ Live(c) = {})
           /\ c.type # "null" =>
                 /\ c.type \in {Categories[i] : i \in DOMAIN Categories}
                 /\ c.enabled[c.type]
                 /\ \E i \in Live(c) : /\ c.type = Categories[i]
                                       /\ \A j \in Live(c) : i <= j

\* a phrase whose key the title and heading indexes still hold while both flags
\* are off, and which the tag and property indexes hold too, is reported as a tag
C14_Witness ==
    /\ classified # NoClassified
    /\ classified.type = "tag"
    /\ classified.has.note /\ ~classified.enabled.note
    /\ classified.has.heading /\ ~classified.enabled.heading
    /\ classified.has.property /\ classified.enabled.property

\* the positions of the text a match covers
Positions(m) == m.start..(m.end - 1)

\* C15: the spans accepted for highlighting never overlap: of two accepted spans
\* the one that starts first ends where the other starts or before, and no position
\* of the text belongs to two accepted spans
C15_AcceptedNeverOverlap ==
    rendered # NoRender =>
        \A i, j \in DOMAIN rendered.accepted :
            /\ rendered.accepted[i].start < rendered.accepted[j].start
                  => rendered.accepted[i].end <= rendered.accepted[j].start
            /\ i # j => Positions(rendered.accepted[i]) \cap Positions(rendered.accepted[j]) = {}

\* two spans are accepted and a classifying candidate that overlaps one of them
\* is left out
C15_Witness ==
    /\ rendered # NoRender
    /\ Len(rendered.accepted) >= 2
    /\ \E i \in DOMAIN rendered.matches, j \in DOMAIN rendered.accepted :
          /\ \A a \in DOMAIN rendered.accepted : rendered.accepted[a] # rendered.matches[i]
          /\ Positions(rendered.matches[i]) \cap Positions(rendered.accepted[j]) # {}

\* the candidates of the node rendered last, by their place in findAllMatches' result
Candidate(i) == rendered.matches[i]

Length(m) == m.end - m.start

IsAccepted(i) == \E a \in DOMAIN rendered.accepted : rendered.accepted[a] = Candidate(i)

Overlap(i, j) == Positions(Candidate(i)) \cap Positions(Candidate(j)) # {}

\* candidate j comes before candidate i in sortedMatches: it is longer, or as long
\* and discovered earlier
Before(j, i) ==
    \/ Length(Candidate(j)) > Length(Candidate(i))
    \/ Length(Candidate(j)) = Length(Candidate(i)) /\ j < i

\* the number of words of a phrase
WordCount(phrase) == Len(ExecAll(phrase, 0))

\* candidates i and j are a word W and a phrase "W X" at the same location
WordAndPhrase(i, j) ==
    /\ Candidate(i).start = Candidate(j).start
    /\ WordCount(Candidate(i).phrase) = 1
    /\ WordCount(Candidate(j).phrase) = 2

\* every candidate that is not accepted overlaps an accepted one at least as long
RejectedOverlapLonger ==
    \A i \in DOMAIN rendered.matches :
        ~IsAccepted(i) =>
            \E j \in DOMAIN rendered.matches :
                /\ IsAccepted(j)
                /\ Overlap(i, j)
                /\ Length(Candidate(j)) >= Length(Candidate(i))

\* C16 (as stated): every candidate that is not accepted overlaps an accepted span at
\* least as long; where a word W and the phrase "W X" are both candidates at a
\* location, the 2-word span is accepted and the 1-word span is not; of overlapping
\* candidates of equal length the one discovered first is accepted
C16_LongerMatchesWin ==
    rendered # NoRender =>
        /\ RejectedOverlapLonger
        /\ \A i, j \in DOMAIN rendered.matches :
              WordAndPhrase(i, j) => IsAccepted(j) /\ ~IsAccepted(i)
        /\ \A i, j \in DOMAIN rendered.matches :
              (i < j /\ Overlap(i, j) /\ Length(Candidate(i)) = Length(Candidate(j)))
                 => IsAccepted(i)

\* C16 (amended): a candidate is accepted exactly when no accepted candidate that is
\* longer, or as long and discovered earlier, overlaps it; so every candidate that is
\* not accepted overlaps an accepted span at least as long, and where a word W and
\* the phrase "W X" are both candidates at a location, the 1-word span is never
\* accepted together with the 2-word span, and the 2-word span is accepted unless a
\* span at least as long that comes before it was accepted over some of its positions
C16_LongerMatchesWinGreedy ==
    rendered # NoRender =>
        /\ \A i \in DOMAIN rendered.matches :
              IsAccepted(i) <=>
                 ~\E j \in DOMAIN rendered.matches :
                      Before(j, i) /\ IsAccepted(j) /\ Overlap(i, j)
        /\ RejectedOverlapLonger
        /\ \A i, j \in DOMAIN rendered.matches :
              WordAndPhrase(i, j) =>
                 /\ ~(IsAccepted(i) /\ IsAccepted(j))
                 /\ ~IsAccepted(j) =>
                       \E b \in DOMAIN rendered.matches :
                           Before(b, j) /\ IsAccepted(b) /\ Overlap(b, j)

\* a text in which the phrase "W X" is accepted over its word W at one location, and
\* at another location is not accepted, because a span as long and discovered
\* earlier holds its first word
C16_Witness ==
    /\ rendered # NoRender
    /\ \E i, j \in DOMAIN rendered.matches :
          WordAndPhrase(i, j) /\ IsAccepted(j) /\ ~IsAccepted(i)
    /\ \E i, j \in DOMAIN rendered.matches :
          WordAndPhrase(i, j) /\ ~IsAccepted(j) /\ ~IsAccepted(i)

\* the text of the children of a fragment, joined left to right
RECURSIVE TextContent(_)
TextContent(pieces) ==
    IF pieces = <<>> THEN <<>> ELSE Head(pieces).text \o TextContent(Tail(pieces))

IsSpan(piece) == piece.span

\* the span elements of the fragment of the node rendered last, left to right
SpansOf(fragment) == SelectSeq(fragment, IsSpan)

\* C17: the accepted spans are in ascending start offset; the texts of the
\* fragment's children, joined left to right, are the text of the node; the spans
\* of the fragment are the accepted spans in order, each with the substring
\* [start, end) of the text as its text
C17_LosslessReconstruction ==
    rendered # NoRender =>
        /\ \A i, j \in DOMAIN rendered.accepted :
              i < j => rendered.accepted[i].start < rendered.accepted[j].start
        /\ rendered.fragment # NoFragment =>
              /\ TextContent(rendered.fragment) = rendered.text
              /\ Len(SpansOf(rendered.fragment)) = Len(rendered.accepted)
              /\ \A i \in DOMAIN rendered.accepted :
                    LET m == rendered.accepted[i]
                    IN /\ SpansOf(rendered.fragment)[i].text
                            = SubSeq(rendered.text, m.start + 1, m.end)
                       /\ SpansOf(rendered.fragment)[i].type = m.type

\* a fragment of two spans with text passed through between and beside them, whose
\* first span was accepted after the longer second one
C17_Witness ==
    /\ rendered # NoRender
    /\ rendered.fragment # NoFragment
    /\ Len(rendered.accepted) = 2
    /\ Length(rendered.accepted[1]) < Length(rendered.accepted[2])
    /\ Len(rendered.fragment) >= 4

\* the word characters of the specification: Unicode letters, digits and underscore
UnicodeWordChars == WordChars \cup {EAcute}

\* [s, e) is a maximal run of characters of the set chars in the text
IsMaximalRun(text, s, e, chars) ==
    /\ s < e
    /\ \A i \in s..(e - 1) : CharAt(text, i) \in chars
    /\ s = 0 \/ CharAt(text, s - 1) \notin chars
    /\ e = Len(text) \/ CharAt(text, e) \notin chars

\* the words are exactly the maximal runs of chars in the text, left to right and
\* apart from each other
TokensAreRuns(text, words, chars) ==
    /\ {<<words[i].start, words[i].end>> : i \in DOMAIN words}
          = {r \in (0..Len(text)) \X (0..Len(text)) : IsMaximalRun(text, r[1], r[2], chars)}
    /\ \A i, j \in DOMAIN words : i < j => words[i].end < words[j].start

\* the words findAllMatches made of the node rendered last
RenderTokens == ExecAll(rendered.text, 0)

\* C18: the tokens of both matching paths are exactly the maximal runs of Unicode
\* letters, digits and underscore of the text, in left-to-right order and without
\* overlap, and the word the hover expands around the pointer is one of them
C18_TokensAreUnicodeWordRuns ==
    /\ rendered # NoRender => TokensAreRuns(rendered.text, RenderTokens, UnicodeWordChars)
    /\ hovered # NoHover =>
          /\ TokensAreRuns(hovered.text, HoverTokens, UnicodeWordChars)
          /\ HasPivot => IsMaximalRun(hovered.text,
                                       ExpandLeft(hovered.text, hovered.offset),
                                       ExpandRight(hovered.text, hovered.offset),
                                       UnicodeWordChars)

\* the valid range of maxPhraseWords, as the slider of the settings tab offers it
MinPhraseWords == 1
MaxPhraseWords == 10

Clamp(v, lo, hi) == IF v < lo THEN lo ELSE IF v > hi THEN hi ELSE v

\* C19: whatever maxPhraseWords was loaded or entered, the hover resolves as if it
\* were clamped into 1..10: it returns none only if no candidate of up to that many
\* tokens around the pivot classifies, and never a phrase of more tokens
C19_ConfigurationClamped ==
    (hovered # NoHover /\ HasPivot) =>
        LET k == Clamp(hovered.maxPhraseWords, MinPhraseWords, MaxPhraseWords)
        IN /\ hovered.result = NoPhrase =>
                 \A m \in 1..k : \A s \in Candidates(m) :
                     ~hasAnyMatch(CandidateText(s, m))
           /\ hovered.result # NoPhrase => Cardinality(TokensSpanned) <= k

\* the deferred shows that are pending
ShowTimers == {t \in timers : t.kind = "show"}

\* C20: a pending deferred show is for the phrase under the most recent pointer
\* position (a move to another phrase or to text that resolves to none cancels the
\* earlier one); at most one deferred show is pending; and a popover shown by a
\* firing timer is for the phrase that was under the pointer at its last move
C20_DeferredShowCancelled ==
    /\ \A t \in ShowTimers :
          /\ hovered # NoHover
          /\ hovered.result # NoPhrase
          /\ hovered.result.phrase = t.phrase
    /\ Cardinality(ShowTimers) <= 1
    /\ popoverEl # NoPopover =>
          /\ popoverEl.under # NoPhrase
          /\ popoverEl.under.phrase = popoverEl.phrase

\* the pending timers that reset the typing flag
TypingTimers == {t \in timers : t.kind = "typing"}

\* C21: no popover is created while the typing flag is set, not even by a hover
\* timer scheduled before the typing started; and whenever isTyping is true exactly
\* one reset timer is pending
C21_NoPopupWhileTyping ==
    /\ popoverEl # NoPopover => ~popoverEl.typing
    /\ isTyping => Cardinality(TypingTimers) = 1

\* C22: while the popover is locked no mousemove and no firing hover timer changes
\* the popover, or makes the phrase the plugin holds for it (lastPhrase, which the
\* insert buttons act on) the phrase of another word
C22_LockedPopoverUnchanged ==
    [][ ( /\ isPopoverLocked
          /\ \/ \E t \in ShortTexts : \E offset \in 0..Len(t) : onMouseMove(t, offset)
             \/ \E t \in timers : \E activeFile \in {0} \cup vault :
                    ShowTimerFires(t, activeFile) )
        => /\ popoverEl' = popoverEl
           /\ lastPhrase' = lastPhrase \/ lastPhrase' = popoverEl.phrase ]_vars

\* C23: whenever a popover is displayed lastPhrase is the phrase of that popover, so
\* a click on an insert button, with an active editor view, replaces an occurrence
\* of the phrase for which the popover was built
C23_InsertActsOnShownPhrase ==
    /\ popoverEl # NoPopover => lastPhrase = popoverEl.phrase
    /\ (inserted # NoInsert /\ inserted.view) =>
          inserted.replaced = [phrase |-> inserted.popover]

\* C24: when the hover timer of a phrase fires while the plugin is enabled, nobody
\* types, no popover is locked and the pointer is still on that phrase, a popover for
\* the phrase is displayed, whichever document is the active one
C24_HoverShowsPopover ==
    [][ \A t \in timers : \A activeFile \in {0} \cup vault :
           ( /\ ShowTimerFires(t, activeFile)
             /\ settings.enabled /\ ~isTyping /\ ~isPopoverLocked
             /\ hovered # NoHover
             /\ hovered.result # NoPhrase
             /\ hovered.result.phrase = t.phrase )
           => (popoverEl' # NoPopover /\ popoverEl'.phrase = t.phrase) ]_vars

\* C25: each section of the popover shows the first maxResults records of its
\* category for the phrase, in index order, all of them if there are fewer, and
\* never more than maxResults
C25_RowsCappedToMaxResults ==
    popoverEl # NoPopover =>
        \A c \in DOMAIN popoverEl.rows :
            LET all  == Matches(popoverEl.phrase, popoverEl.activeFile)[c]
                rows == popoverEl.rows[c]
            IN /\ Len(rows) = Min(Len(all), Max(popoverEl.maxResults, 0))
               /\ rows = SubSeq(all, 1, Len(rows))

\* C26: isPopoverLocked is true only while a popover element exists
C26_LockedOnlyWithPopover ==
    isPopoverLocked => popoverEl # NoPopover

\* a popover is locked after an earlier, locked popover was hidden by a click on
\* one of its buttons
C26_LockedAgainAfterClick ==
    /\ isPopoverLocked
    /\ popoverEl # NoPopover
    /\ inserted # NoInsert

\* C27: the phrase getPhraseAtRange returns consists of whole tokens of the full
\* text: it starts where a token of the text starts and ends where one ends, also
\* when the context window cuts through a word
C27_PhraseOfWholeTokens ==
    (hovered # NoHover /\ hovered.result # NoPhrase) =>
        LET tokens == ExecAll(hovered.text, 0)
        IN /\ \E i \in DOMAIN tokens : tokens[i].start = hovered.result.start
           /\ \E i \in DOMAIN tokens : tokens[i].end = hovered.result.end

\* C28: the grace timer hides a popover only if it is the popover the pointer left:
\* the timer started for an earlier popover never hides a later one
C28_GraceTimerHidesItsPopover ==
    [][ \A t \in timers :
           (HideTimerFires(t) /\ popoverEl # NoPopover /\ popoverEl' = NoPopover)
           => popoverEl.phrase = t.phrase ]_vars

\* C29: while settings.enabled is false the plugin does nothing visible: the post
\* processor wraps no text, mousemove schedules no hover timer, and no popover is
\* created, also not by a hover timer scheduled before the plugin was disabled
C29_DisabledDoesNothingVisible ==
    [][ (~settings.enabled /\ ~settings'.enabled) =>
            /\ rendered' # rendered => rendered'.fragment = NoFragment
            /\ {t \in timers' : t.kind = "show"} \subseteq timers
            /\ popoverEl' # popoverEl => popoverEl' = NoPopover ]_vars

\* the string values of the metadata c, of keys other than 'position', that are at
\* least minLen long
IndexableValues(c, minLen) ==
    LET ps == Flatten(c.frontmatter)
    IN { [property |-> ps[i].property, value |-> ps[i].value.v] :
            i \in { j \in DOMAIN ps : /\ ps[j].property # "position"
                                      /\ ps[j].value.t = "string"
                                      /\ Len(ps[j].value.v) >= minLen } }

\* the records of the property mapping
PropertyRecords ==
    UNION { { propertyIndex[k][i] : i \in DOMAIN propertyIndex[k] } : k \in DOMAIN propertyIndex }

\* C30: every record of the property mapping is a string value, of a metadata key
\* other than 'position', at least the current settings.minWordLength long, also
\* after minWordLength was changed; and with property detection enabled every such
\* value of a present document is in the mapping
C30_PropertiesMeetCurrentMinimum ==
    /\ \A r \in PropertyRecords :
          /\ Len(r.value) >= settings.minWordLength
          /\ r.property # "position"
    /\ settings.detectProperties =>
          \A f \in vault :
             (tfile[f].extension = MD /\ cache[f] # NoCache) =>
                \A v \in IndexableValues(cache[f], settings.minWordLength) :
                   [file |-> f, property |-> v.property, value |-> v.value] \in PropertyRecords

====
